---- MODULE Spec2Model ----
(***************************************************************************)
(* A model of claudecat's ingestion and caching pipeline:                  *)
(*   - fileio.LoadUsageEntries and the per-file processors                 *)
(*     (src/fileio/usage_loader.go), over a small file system and a        *)
(*     summary store;                                                      *)
(*   - orchestrator.DataManager (src/unnamed/part_000), called by          *)
(*     concurrent callers.                                                 *)
(* Two specifications share the definitions: LoadSpec drives the loader    *)
(* alone, Spec drives the DataManager on top of it.                        *)
(***************************************************************************)
EXTENDS Integers, Sequences, FiniteSets, TLC

VARIABLES
    fs,          \* the data directory: path -> file (lines, modTime, size, readable)
    dataPathOk,  \* whether DiscoverFiles(dataPath) succeeds
    store,       \* the CacheStore: path -> FileSummary or NoSummary
    envSteps,    \* how many changes the environment has made (bounded by MaxEnvSteps)
    now,         \* the clock, in minutes
    last,        \* what the most recent LoadUsageEntries call returned (NoLoad before)
    config,      \* the caller's configuration (cache store set, deduplication, raw records)
    \* DataManager fields
    cache,                \* dm.cache: the published AnalysisResult, or NilResult
    cacheTimestamp,       \* dm.cacheTimestamp (ZeroTime when unset)
    lastError,            \* dm.lastError ("" is nil)
    lastSuccessfulFetch,  \* dm.lastSuccessfulFetch
    initialLoadCompleted, \* dm.initialLoadCompleted
    tracker,              \* dm.activeSessionFiles: path -> FileTracker or NoTracker
    \* the callers of the DataManager: where each is in its call, and its locals
    pc, force, attempt, data, loadErr, slept, ret, retErr,
    initialLoads,         \* how many calls have entered performInitialLoad (counted up to MaxCounted)
    \* the application's context and the background cache updater
    cancelled,            \* ctx.Done() is closed
    cacheUpdateTicker,    \* dm.cacheUpdateTicker: NilRef or the ticker of a Start
    cacheUpdateStop,      \* dm.cacheUpdateStop: NilRef or the stop channel of a Start
    tickers,              \* every ticker made so far: stopped, and a tick waiting in C
    closedStops,          \* the stop channels that have been closed
    updater,              \* the updater goroutines: position and the channels selected on
    owner,                \* where the thread calling Start and Stop is
    \* EnhancedApplication
    running,              \* ea.running
    runPc,                \* the callers of Run: where each is in its call
    wg,                   \* ea.wg: the goroutines Run waits for
    sigCh,                \* the signals delivered and not yet handled (buffer of one)
    orchestrator,         \* the orchestrator: "created", "started" or "stopped"
    startAttempts         \* how many times ea.start() has been called

envVars == <<fs, dataPathOk, envSteps, now>>
dmVars == <<cache, cacheTimestamp, lastError, lastSuccessfulFetch,
            initialLoadCompleted, tracker>>
callVars == <<pc, force, attempt, data, loadErr, slept, ret, retErr, initialLoads>>
updVars == <<cacheUpdateTicker, cacheUpdateStop, tickers, closedStops, updater, owner>>
runVars == <<running, runPc, wg, sigCh, orchestrator, startAttempts>>
vars == <<fs, dataPathOk, envSteps, now, store, last, config,
          cache, cacheTimestamp, lastError, lastSuccessfulFetch,
          initialLoadCompleted, tracker,
          pc, force, attempt, data, loadErr, slept, ret, retErr, initialLoads,
          cancelled, cacheUpdateTicker, cacheUpdateStop, tickers, closedStops,
          updater, owner,
          running, runPc, wg, sigCh, orchestrator, startAttempts>>

---------------------------------------------------------------------------
(* Bounds of the model *)

\* The environment (log writer, file system, clock) changes at most this many
\* times in a run.
MaxEnvSteps == 2

\* Calls entering performInitialLoad are counted up to this number.
MaxCounted == 2

(* Program constants *)

\* useConcurrent := len(jsonlFiles) > 10
ConcurrentThreshold == 10

\* time.Hour, in the model's unit of time (one minute)
MinutesPerHour == 60

\* HoursBack == nil
NoHoursBack == 0

\* maxRetries := 3
MaxRetries == 3

\* backoff := time.Duration(100*(1<<attempt)) * time.Millisecond
BackoffBaseMs == 100

\* sessions.NewSessionAnalyzer(5): 5-hour sessions
SessionHours == 5

\* now.Sub(block.EndTime) < 5*time.Hour
RecentHours == 5

\* block.EndTime.Add(30*time.Minute)
BufferMinutes == 30

---------------------------------------------------------------------------
(* The file system *)

\* The files the log writer appends to.
Paths == {1, 2}
\* Files that are never written again (old logs); present only in a large directory.
FillerPaths == (Cardinality(Paths) + 1)..(Cardinality(Paths) + ConcurrentThreshold)
AllPaths == Paths \cup FillerPaths

Timestamps == {1, 2}

UsageLine(ts, mid, rid) == [kind |-> "usage", ts |-> ts, mid |-> mid, rid |-> rid]
OtherLine(k) == [kind |-> k, ts |-> 0, mid |-> "", rid |-> ""]

\* The lines a writer may append. "toolong" is a line longer than the scanner's
\* 10MB buffer (bufio.ErrTooLong); "badjson" does not parse; "nousage" is a JSON
\* object without usage data.
LineAlphabet ==
    { UsageLine(ts, "m1", "r1") : ts \in Timestamps }
    \cup { UsageLine(ts, "", "") : ts \in Timestamps }
    \cup { UsageLine(1, "m1", "") }
    \cup { OtherLine("nousage"), OtherLine("badjson"), OtherLine("blank"),
           OtherLine("toolong") }

NoFile == [present |-> FALSE, lines |-> <<>>, modTime |-> 0, readable |-> FALSE]
File(lines, modTime, readable) ==
    [present |-> TRUE, lines |-> lines, modTime |-> modTime, readable |-> readable]

\* os.FileInfo.Size(): one unit per line.
FileSize(f) == Len(f.lines)

---------------------------------------------------------------------------
(* models.UsageEntry and cache.FileSummary *)

\* extractUsageEntry + entry.Project = extractProjectFromPath(filePath)
EntryOf(line, path) ==
    [ts |-> line.ts, mid |-> line.mid, rid |-> line.rid, project |-> path]

NoSummary == [valid |-> FALSE]
Summary(modTime, size, entries, noAssistant) ==
    [valid |-> TRUE, modTime |-> modTime, size |-> size, entries |-> entries,
     hasNoAssistantMessages |-> noAssistant]

NoCutoff == 0

\* cachedSummary.IsExpired(fileInfo.ModTime(), fileInfo.Size())
IsExpired(summary, modTime, size) ==
    summary.modTime # modTime \/ summary.size # size

\* key := fmt.Sprintf("%s:%s", entry.MessageID, entry.RequestID)
DedupKey(e) == e.mid \o ":" \o e.rid

\* entry.Timestamp.Before(*cutoffTime)
BeforeCutoff(ts, cutoff) == cutoff # NoCutoff /\ ts < cutoff

RECURSIVE FilterSeq(_, _, _, _)
FilterSeq(seq, cutoff, i, acc) ==
    IF i > Len(seq) THEN acc
    ELSE FilterSeq(seq, cutoff, i + 1,
                   IF BeforeCutoff(seq[i].ts, cutoff) THEN acc ELSE Append(acc, seq[i]))

\* createEntriesFromSummary(cachedSummary, cutoffTime)
CreateEntriesFromSummary(summary, cutoff) ==
    FilterSeq(summary.entries, cutoff, 1, <<>>)

\* createSummaryFromEntries(absPath, filePath, entries, fileInfo)
CreateSummaryFromEntries(entries, f) == Summary(f.modTime, FileSize(f), entries, FALSE)

\* createEmptySummaryForFile(absPath, filePath)
CreateEmptySummaryForFile(f) == Summary(f.modTime, FileSize(f), <<>>, TRUE)

\* hasAssistantMessages(filePath): a cheap scan for any usage-bearing line.
HasAssistantMessages(f) ==
    f.readable /\ \E i \in 1..Len(f.lines) : f.lines[i].kind = "usage"

---------------------------------------------------------------------------
(* processSingleFileWithDedup: the scan loop over one file *)

\* The loop's state: entries and rawEntries so far, the (shared, mutable)
\* deduplication set, and whether the scanner stopped on an error.
ScanStart(seen) == [entries |-> <<>>, raw |-> <<>>, seen |-> seen, scanErr |-> FALSE]

\* The deduplication check of one entry: TRUE when the entry is dropped.
IsDuplicate(dedupOn, e, seen) ==
    dedupOn /\ e.mid # "" /\ e.rid # "" /\ DedupKey(e) \in seen

MarkSeen(dedupOn, e, seen) ==
    IF dedupOn /\ e.mid # "" /\ e.rid # "" THEN seen \cup {DedupKey(e)} ELSE seen

\* A loop body that gives up the file at a line that is not valid JSON.
ScanLineFailingOnBadJSON(l, path, cutoff, includeRaw, dedupOn, acc) ==
    IF l.kind \in {"toolong", "badjson"} THEN [acc EXCEPT !.scanErr = TRUE]
    ELSE IF l.kind = "blank" THEN acc
    ELSE
      LET acc1 == IF includeRaw THEN [acc EXCEPT !.raw = Append(@, l)] ELSE acc
          e == EntryOf(l, path)
      IN IF l.kind # "usage" \/ BeforeCutoff(l.ts, cutoff)
            \/ IsDuplicate(dedupOn, e, acc1.seen)
         THEN acc1
         ELSE [acc1 EXCEPT !.entries = Append(@, e),
                           !.seen = MarkSeen(dedupOn, e, @)]

\* One pass of the loop body over line l.
ScanLine(l, path, cutoff, includeRaw, dedupOn, acc) ==
    IF l.kind = "toolong" THEN [acc EXCEPT !.scanErr = TRUE]
    ELSE IF l.kind \in {"blank", "badjson"} THEN acc
    ELSE
      LET acc1 == IF includeRaw THEN [acc EXCEPT !.raw = Append(@, l)] ELSE acc
          e == EntryOf(l, path)
      IN IF l.kind # "usage" \/ BeforeCutoff(l.ts, cutoff)
            \/ IsDuplicate(dedupOn, e, acc1.seen)
         THEN acc1
         ELSE [acc1 EXCEPT !.entries = Append(@, e),
                           !.seen = MarkSeen(dedupOn, e, @)]

RECURSIVE ScanLines(_, _, _, _, _, _, _)
\* for scanner.Scan() { ... }: stops at the end of the file or at a scanner error.
ScanLines(lines, i, path, cutoff, includeRaw, dedupOn, acc) ==
    IF i > Len(lines) \/ acc.scanErr THEN acc
    ELSE ScanLines(lines, i + 1, path, cutoff, includeRaw, dedupOn,
                   ScanLine(lines[i], path, cutoff, includeRaw, dedupOn, acc))

\* What the function returns once the loop has ended in state r: on a scanner
\* error nil entries and the error, else the entries.
ScanReturn(r) ==
    IF r.scanErr
    THEN [entries |-> <<>>, raw |-> <<>>, err |-> "read", seen |-> r.seen]
    ELSE [entries |-> r.entries, raw |-> r.raw, err |-> "", seen |-> r.seen]

\* Returns entries, rawEntries, err and the deduplication set as the call left it.
\* dedupOn is "deduplicationSet != nil".
ProcessSingleFileWithDedup(path, f, cutoff, includeRaw, dedupOn, seen) ==
    IF ~f.readable
    THEN [entries |-> <<>>, raw |-> <<>>, err |-> "open", seen |-> seen]
    ELSE ScanReturn(ScanLines(f.lines, 1, path, cutoff, includeRaw, dedupOn,
                              ScanStart(seen)))

\* processSingleFile: the same with a nil deduplication set.
ProcessSingleFile(path, f, cutoff, includeRaw) ==
    ProcessSingleFileWithDedup(path, f, cutoff, includeRaw, FALSE, {})

---------------------------------------------------------------------------
(* processSingleFileWithCacheAndDedup: the cache-aware wrapper *)

\* Load options: opts.CacheStore != nil, opts.EnableDeduplication, opts.IncludeRaw,
\* and the cutoff derived from opts.HoursBack.
Opts(cacheStore, dedup, includeRaw, cutoff) ==
    [cacheStore |-> cacheStore, dedup |-> dedup, includeRaw |-> includeRaw,
     cutoff |-> cutoff, storeFault |-> "none"]

\* The calls of the CacheStore interface that can return an error: a store is
\* sound ("none") or fails one kind of call.
StoreFaults == {"none", "get", "set", "invalidate"}

\* The options with a CacheStore that has the given fault.
WithStore(opts, fault) == [opts EXCEPT !.storeFault = fault]

\* opts.CacheStore.GetFileSummary(absPath): the summary, or an error (no summary).
GetFileSummary(st, path, opts) ==
    IF opts.storeFault = "get" THEN NoSummary ELSE st[path]

\* What one call returns, with the deduplication set and the store as it left
\* them; opened tells whether the call opened the file's content.
FileResult(entries, raw, fromCache, missReason, err, summary, seen, st, opened) ==
    [entries |-> entries, raw |-> raw, fromCache |-> fromCache,
     missReason |-> missReason, err |-> err, summary |-> summary,
     seen |-> seen, store |-> st, opened |-> opened]

\* opts.CacheStore.InvalidateFileSummary(absPath)
InvalidateFileSummary(st, path) == [st EXCEPT ![path] = NoSummary]

\* The expired summary is invalidated; a failure is logged and the summary stays.
Invalidated(st, path, opts) ==
    IF opts.storeFault = "invalidate" THEN st ELSE InvalidateFileSummary(st, path)

\* "Determine miss reason": a second GetFileSummary after the invalidation.
MissReason(st, path, opts) ==
    IF ~opts.cacheStore THEN "other"
    ELSE IF ~GetFileSummary(st, path, opts).valid THEN "new_file"
    ELSE "modified_file"

\* The summary built after a successful parse: only with a store, and only
\* when the parse gave at least one entry.
NewSummary(entries, f, opts) ==
    IF opts.cacheStore /\ Len(entries) > 0
    THEN CreateSummaryFromEntries(entries, f) ELSE NoSummary

\* The return after full processing gave r.
FullReturn(r, f, st, opts, missReason) ==
    IF r.err # ""
    THEN FileResult(r.entries, r.raw, FALSE, missReason, r.err, NoSummary,
                    r.seen, st, TRUE)
    ELSE FileResult(r.entries, r.raw, FALSE, missReason, "",
                    NewSummary(r.entries, f, opts), r.seen, st, TRUE)

\* The tail of the function: miss reason, full processing, new summary.
FullProcess(path, f, st, opts, dedupOn, seen) ==
    FullReturn(ProcessSingleFileWithDedup(path, f, opts.cutoff, opts.includeRaw,
                                          dedupOn, seen),
               f, st, opts, MissReason(st, path, opts))

\* os.Stat failed: plain processSingleFile, classified new_file.
StatFailedReturn(r, st, seen) ==
    FileResult(r.entries, r.raw, FALSE, "new_file", r.err, NoSummary, seen, st, TRUE)

\* A valid summary: a cache hit, without opening the file.
CacheHit(summary, st, opts, seen) ==
    IF summary.hasNoAssistantMessages
    THEN FileResult(<<>>, <<>>, TRUE, "", "", NoSummary, seen, st, FALSE)
    ELSE FileResult(CreateEntriesFromSummary(summary, opts.cutoff), <<>>,
                    TRUE, "", "", NoSummary, seen, st, FALSE)

\* A miss that returns no summary for a file without usage lines.
CacheMissWithoutEmptySummary(path, f, st, opts, dedupOn, seen) ==
    IF ~HasAssistantMessages(f)
    THEN FileResult(<<>>, <<>>, FALSE, "no_assistant_messages", "",
                    NoSummary, seen, st, TRUE)
    ELSE FullProcess(path, f, st, opts, dedupOn, seen)

\* No valid summary (st is the store after the invalidation, if any).
CacheMiss(path, f, st, opts, dedupOn, seen) ==
    IF ~HasAssistantMessages(f)
    THEN FileResult(<<>>, <<>>, FALSE, "no_assistant_messages", "",
                    CreateEmptySummaryForFile(f), seen, st, TRUE)
    ELSE FullProcess(path, f, st, opts, dedupOn, seen)

\* A wrapper that takes every stored summary as a hit, whatever its stamp.
ProcessSingleFileTrustingSummary(path, f, st, opts, dedupOn, seen) ==
    IF ~opts.cacheStore THEN FullProcess(path, f, st, opts, dedupOn, seen)
    ELSE IF ~f.present
    THEN StatFailedReturn(ProcessSingleFile(path, f, opts.cutoff, opts.includeRaw),
                          st, seen)
    ELSE IF GetFileSummary(st, path, opts).valid
    THEN CacheHit(GetFileSummary(st, path, opts), st, opts, seen)
    ELSE CacheMiss(path, f, st, opts, dedupOn, seen)

ProcessSingleFileWithCacheAndDedup(path, f, st, opts, dedupOn, seen) ==
    IF ~opts.cacheStore THEN FullProcess(path, f, st, opts, dedupOn, seen)
    ELSE IF ~f.present
    THEN StatFailedReturn(ProcessSingleFile(path, f, opts.cutoff, opts.includeRaw),
                          st, seen)
    ELSE IF GetFileSummary(st, path, opts).valid
            /\ ~IsExpired(GetFileSummary(st, path, opts), f.modTime, FileSize(f))
    THEN CacheHit(GetFileSummary(st, path, opts), st, opts, seen)
    ELSE CacheMiss(path, f,
                   IF GetFileSummary(st, path, opts).valid
                   THEN Invalidated(st, path, opts) ELSE st,
                   opts, dedupOn, seen)

\* processSingleFileWithCacheWithReason: the same with a nil deduplication set.
ProcessSingleFileWithCacheWithReason(path, f, st, opts) ==
    ProcessSingleFileWithCacheAndDedup(path, f, st, opts, FALSE, {})

---------------------------------------------------------------------------
(* LoadUsageEntries *)

\* A set of paths as the walk lists them: ascending.
SeqOfSet(S) ==
    [i \in 1..Cardinality(S) |->
        CHOOSE x \in S : Cardinality({y \in S : y < x}) = i - 1]

\* findJSONLFiles / DiscoverFiles: the .jsonl files under the data path.
FindJSONLFiles(fsys) == SeqOfSet({p \in DOMAIN fsys : fsys[p].present})

\* Where e goes in the sorted sequence: after every entry that is not later.
InsertAt(sorted, e, k) ==
    SubSeq(sorted, 1, k) \o <<e>> \o SubSeq(sorted, k + 1, Len(sorted))

InsertByTimestamp(sorted, e) ==
    InsertAt(sorted, e, Cardinality({j \in 1..Len(sorted) : sorted[j].ts <= e.ts}))

RECURSIVE SortFrom(_, _, _)
SortFrom(seq, i, acc) ==
    IF i > Len(seq) THEN acc ELSE SortFrom(seq, i + 1, InsertByTimestamp(acc, seq[i]))

\* A load that skips the sort (entries stay in merge order).
SortByTimestampSkipped(entries) == entries

\* sort.Slice(allEntries, func(i, j) { return allEntries[i].Timestamp.Before(...) })
SortByTimestamp(entries) == SortFrom(entries, 1, <<>>)

\* What the load keeps of one file's processing (the call's return values, the
\* stat it saw, and whether it opened the file).
NotProcessed ==
    [processed |-> FALSE, entries |-> <<>>, fromCache |-> FALSE, missReason |-> "",
     err |-> "", opened |-> FALSE, modTime |-> 0, size |-> 0]
PerFile(r, f) ==
    [processed |-> TRUE, entries |-> r.entries, fromCache |-> r.fromCache,
     missReason |-> r.missReason, err |-> r.err, opened |-> r.opened,
     modTime |-> f.modTime, size |-> FileSize(f)]

ZeroReasons ==
    [r \in {"new_file", "modified_file", "no_assistant_messages", "other"} |-> 0]

\* The locals of a load whose deduplication set is the one the call before
\* left behind.
LoadStartKeepingSeen(st) ==
    [i |-> 1, entries |-> <<>>, raw |-> <<>>, errors |-> <<>>, hits |-> 0, misses |-> 0,
     reasons |-> ZeroReasons, summaries |-> <<>>,
     seen |-> { DedupKey(last.entries[j]) : j \in 1..Len(last.entries) },
     store |-> st,
     perFile |-> [p \in AllPaths |-> NotProcessed]]

\* The locals of LoadUsageEntries.
LoadStart(st) ==
    [i |-> 1, entries |-> <<>>, raw |-> <<>>, errors |-> <<>>, hits |-> 0, misses |-> 0,
     reasons |-> ZeroReasons, summaries |-> <<>>, seen |-> {}, store |-> st,
     perFile |-> [p \in AllPaths |-> NotProcessed]]

\* The loop body after the file was processed with result r, of which the merge
\* keeps the entries kept and leaves the deduplication set seen: the error is
\* recorded and the file skipped, or the counters, the entries, the raw records
\* and the summary to persist are added.
Accumulate(acc, path, f, opts, r, kept, seen) ==
    IF r.err # ""
    THEN [acc EXCEPT !.i = @ + 1,
                     !.store = r.store, !.perFile[path] = PerFile(r, f),
                     !.seen = seen,
                     !.errors = Append(@, path)]
    ELSE [acc EXCEPT !.i = @ + 1,
                     !.store = r.store, !.perFile[path] = PerFile(r, f),
                     !.seen = seen,
                     !.hits = IF r.fromCache THEN @ + 1 ELSE @,
                     !.misses = IF r.fromCache THEN @ ELSE @ + 1,
                     !.reasons = IF ~r.fromCache /\ r.missReason # ""
                                 THEN [@ EXCEPT ![r.missReason] = @ + 1] ELSE @,
                     !.entries = @ \o kept,
                     !.raw = IF opts.includeRaw THEN @ \o r.raw ELSE @,
                     !.summaries = IF r.summary.valid
                                   THEN Append(@, [path |-> path,
                                                   summary |-> r.summary])
                                   ELSE @]

\* One pass of the sequential loop body: the file's entries are appended as the
\* per-file call returned them (it has applied the shared deduplication set).
SequentialMerge(acc, path, f, opts, r) ==
    Accumulate(acc, path, f, opts, r, r.entries, r.seen)

SequentialStep(path, fsys, opts, acc) ==
    SequentialMerge(acc, path, fsys[path], opts,
        ProcessSingleFileWithCacheAndDedup(path, fsys[path], acc.store, opts,
                                           opts.dedup, acc.seen))

RECURSIVE SequentialLoad(_, _, _, _)
\* The sequential branch: for i, filePath := range jsonlFiles { ... }
SequentialLoad(files, fsys, opts, acc) ==
    IF acc.i > Len(files) THEN acc
    ELSE SequentialLoad(files, fsys, opts,
                        SequentialStep(files[acc.i], fsys, opts, acc))

RECURSIVE DedupEntries(_, _, _)
\* The merge step's filter over one result's entries: first seen wins.
\* Returns the entries kept and the set after them.
DedupEntries(entries, i, acc) ==
    IF i > Len(entries) THEN acc
    ELSE DedupEntries(entries, i + 1,
           IF IsDuplicate(TRUE, entries[i], acc.seen) THEN acc
           ELSE [kept |-> Append(acc.kept, entries[i]),
                 seen |-> MarkSeen(TRUE, entries[i], acc.seen)])

\* MergeResults / MergeResultsWithDedup over one result.
MergeEntries(entries, opts, seen) ==
    IF opts.dedup THEN DedupEntries(entries, 1, [kept |-> <<>>, seen |-> seen])
    ELSE [kept |-> entries, seen |-> seen]

ConcurrentMerged(acc, path, f, opts, r, m) ==
    Accumulate(acc, path, f, opts, r, m.kept, IF r.err # "" THEN acc.seen ELSE m.seen)

ConcurrentMerge(acc, path, f, opts, r) ==
    ConcurrentMerged(acc, path, f, opts, r, MergeEntries(r.entries, opts, acc.seen))

\* One worker's result, merged.
ConcurrentStep(path, fsys, opts, acc) ==
    ConcurrentMerge(acc, path, fsys[path], opts,
        ProcessSingleFileWithCacheWithReason(path, fsys[path], acc.store, opts))

Reverse(seq) == [i \in 1..Len(seq) |-> seq[Len(seq) + 1 - i]]

\* The order in which the worker pool hands back its results.
WorkerOrders == {"discovery", "reversed"}
ResultOrder(files, order) == IF order = "reversed" THEN Reverse(files) ELSE files

RECURSIVE ConcurrentLoad(_, _, _, _)
\* The concurrent branch: loader.LoadFilesWithProgress over the worker pool, then
\* the merge and the statistics loop, over the results in the order returned.
ConcurrentLoad(results, fsys, opts, acc) ==
    IF acc.i > Len(results) THEN acc
    ELSE ConcurrentLoad(results, fsys, opts,
                        ConcurrentStep(results[acc.i], fsys, opts, acc))

RECURSIVE BatchSet(_, _, _)
\* batcher.BatchSet(summariesToCache), or SetFileSummary for each
BatchSet(st, summaries, i) ==
    IF i > Len(summaries) THEN st
    ELSE BatchSet([st EXCEPT ![summaries[i].path] = summaries[i].summary],
                  summaries, i + 1)

\* The error return of a load whose file discovery failed.
LoadFailed(opts) ==
    [ok |-> FALSE, entries |-> <<>>, raw |-> <<>>, filesProcessed |-> 0,
     errors |-> <<>>, hits |-> 0, misses |-> 0, reasons |-> ZeroReasons,
     concurrent |-> FALSE, opts |-> opts,
     perFile |-> [p \in AllPaths |-> NotProcessed]]

\* A return that gives up the load when the batch write fails.
LoadReturnFailingOnBatchSet(acc, nFiles, useConcurrent, opts) ==
    IF Len(acc.summaries) > 0 /\ opts.cacheStore /\ opts.storeFault = "set"
    THEN [result |-> LoadFailed(opts), store |-> acc.store]
    ELSE [result |->
            [ok |-> TRUE, entries |-> SortByTimestamp(acc.entries), raw |-> acc.raw,
             filesProcessed |-> nFiles, errors |-> acc.errors,
             hits |-> acc.hits, misses |-> acc.misses, reasons |-> acc.reasons,
             concurrent |-> useConcurrent, opts |-> opts,
             perFile |-> acc.perFile],
          store |-> IF Len(acc.summaries) > 0 /\ opts.cacheStore
                    THEN BatchSet(acc.store, acc.summaries, 1) ELSE acc.store]

\* After the loop: the sort, the batch write of the summaries, the result.
LoadReturn(acc, nFiles, useConcurrent, opts) ==
    [result |->
       [ok |-> TRUE, entries |-> SortByTimestamp(acc.entries), raw |-> acc.raw,
        filesProcessed |-> nFiles, errors |-> acc.errors,
        hits |-> acc.hits, misses |-> acc.misses, reasons |-> acc.reasons,
        concurrent |-> useConcurrent, opts |-> opts,
        perFile |-> acc.perFile],
     store |-> IF Len(acc.summaries) > 0 /\ opts.cacheStore
                  /\ opts.storeFault # "set"
               THEN BatchSet(acc.store, acc.summaries, 1) ELSE acc.store]

LoadFiles(files, fsys, st, opts, order) ==
    IF Len(files) > ConcurrentThreshold
    THEN LoadReturn(ConcurrentLoad(ResultOrder(files, order), fsys, opts,
                                   LoadStart(st)),
                    Len(files), TRUE, opts)
    ELSE LoadReturn(SequentialLoad(files, fsys, opts, LoadStart(st)),
                    Len(files), FALSE, opts)

\* LoadUsageEntries(opts): the result returned and the store as the call left it.
\* order is the order in which the worker pool returns (used above the threshold).
LoadUsageEntries(fsys, pathOk, st, opts, order) ==
    IF ~pathOk THEN [result |-> LoadFailed(opts), store |-> st]
    ELSE LoadFiles(FindJSONLFiles(fsys), fsys, st, opts, order)

---------------------------------------------------------------------------
(* The environment: the log writer, the file system and the clock *)

\* cutoff := time.Now().UTC().Add(-time.Duration(*opts.HoursBack) * time.Hour)
CutoffTime(hoursBack, t) ==
    IF hoursBack = NoHoursBack THEN NoCutoff ELSE t - hoursBack * MinutesPerHour

\* The values of HoursBack a caller passes (a nil pointer, or a number of hours).
HoursBackChoices == {NoHoursBack, 1}

\* The clock starts here: with HoursBack = 1 the cutoff is minute 2.
StartTime == MinutesPerHour + 2

NoLoad == [ok |-> FALSE, entries |-> <<>>, raw |-> <<>>, filesProcessed |-> 0,
           errors |-> <<>>, hits |-> 0, misses |-> 0, reasons |-> ZeroReasons,
           concurrent |-> FALSE,
           opts |-> Opts(FALSE, FALSE, FALSE, NoCutoff),
           perFile |-> [p \in AllPaths |-> NotProcessed]]

\* The caller's configuration: whether a cache store is set, whether
\* deduplication is enabled, whether raw records are requested.
Configs ==
    { cfg \in [cacheStore : BOOLEAN, dedup : BOOLEAN, includeRaw : BOOLEAN,
               storeFault : StoreFaults] :
        cfg.cacheStore \/ cfg.storeFault = "none" }

\* The hoursBack a DataManager is constructed with.
DMHoursBack == CHOOSE h \in HoursBackChoices : h # NoHoursBack

\* An old log file that is never written again.
FillerFile == File(<<UsageLine(2, "m1", "r1")>>, 1, TRUE)

(* The data manager's state after NewDataManager *)

ZeroTime == 0
NilResult == [valid |-> FALSE]
NoTracker == [tracked |-> FALSE, lastModTime |-> ZeroTime,
              lastCacheUpdate |-> ZeroTime, inSessionWindow |-> FALSE]

\* How many times Start may make a ticker in a run.
MaxStarts == 2

\* A nil ticker pointer, a nil channel.
NilRef == 0
Generations == 1..MaxStarts
NoTicker == [made |-> FALSE, stopped |-> FALSE, tick |-> FALSE]
NoUpdater == [pc |-> "absent", stopCh |-> NilRef, tickCh |-> NilRef]

\* No Start yet: both fields nil, no goroutine, the context not cancelled.
\* How many times ea.start() is tried in a run (the first call and the retries).
MaxStartAttempts == 2

\* The goroutines that call Run, and the signals Run subscribes to that are
\* told apart: a shutdown signal and SIGHUP.
RunCallers == {"r1", "r2", "r3"}
Signals == {"INT", "HUP"}

\* NewEnhancedApplication has returned: nothing runs yet.
RunIdle ==
    /\ running = FALSE
    /\ runPc = [r \in RunCallers |-> "idle"]
    /\ wg = 0
    /\ sigCh = <<>>
    /\ orchestrator = "created"
    /\ startAttempts = 0

UpdaterIdle ==
    /\ cancelled = FALSE
    /\ cacheUpdateTicker = NilRef
    /\ cacheUpdateStop = NilRef
    /\ tickers = [g \in Generations |-> NoTicker]
    /\ closedStops = {}
    /\ updater = [g \in Generations |-> NoUpdater]
    /\ owner = "idle"

Callers == {"c1", "c2"}

DMInit ==
    /\ cache = NilResult
    /\ cacheTimestamp = ZeroTime
    /\ lastError = ""
    /\ lastSuccessfulFetch = ZeroTime
    /\ initialLoadCompleted = FALSE
    /\ tracker = [p \in AllPaths |-> NoTracker]
    /\ UpdaterIdle
    /\ pc = [c \in Callers |-> "idle"]
    /\ force = [c \in Callers |-> FALSE]
    /\ attempt = [c \in Callers |-> 0]
    /\ data = [c \in Callers |-> NilResult]
    /\ loadErr = [c \in Callers |-> ""]
    /\ slept = [c \in Callers |-> <<>>]
    /\ ret = [c \in Callers |-> NilResult]
    /\ retErr = [c \in Callers |-> ""]
    /\ initialLoads = 0

\* The data directory a run starts with: empty, or one log with one entry.
InitialDirs ==
    { [p \in AllPaths |-> NoFile],
      [p \in AllPaths |->
         IF p = 1 THEN File(<<UsageLine(2, "m1", "r1")>>, 1, TRUE) ELSE NoFile] }

EnvInit ==
    /\ RunIdle
    /\ fs \in InitialDirs
    /\ dataPathOk = TRUE
    /\ store = [p \in AllPaths |-> NoSummary]
    /\ envSteps = 0
    /\ now = StartTime
    /\ last = NoLoad

\* What an environment step leaves alone.
appVars == <<store, last, config, cache, cacheTimestamp, lastError,
             lastSuccessfulFetch, initialLoadCompleted, tracker,
             pc, force, attempt, data, loadErr, slept, ret, retErr, initialLoads,
             cancelled, cacheUpdateTicker, cacheUpdateStop, tickers, closedStops,
             updater, owner,
             running, runPc, wg, sigCh, orchestrator, startAttempts>>

\* The log writer appends one line to a file (creating it when missing).
AppendLine(p, l) ==
    /\ envSteps < MaxEnvSteps
    /\ envSteps' = envSteps + 1
    /\ fs' = [fs EXCEPT ![p] = File(Append(@.lines, l), now,
                                    IF @.present THEN @.readable ELSE TRUE)]
    /\ UNCHANGED <<dataPathOk, now>>
    /\ UNCHANGED appVars

\* A file's permissions change: it can no longer, or can again, be opened.
Chmod(p) ==
    /\ envSteps < MaxEnvSteps
    /\ fs[p].present
    /\ envSteps' = envSteps + 1
    /\ fs' = [fs EXCEPT ![p].readable = ~@]
    /\ UNCHANGED <<dataPathOk, now>>
    /\ UNCHANGED appVars

\* A log file is deleted.
RemoveFile(p) ==
    /\ envSteps < MaxEnvSteps
    /\ fs[p].present
    /\ envSteps' = envSteps + 1
    /\ fs' = [fs EXCEPT ![p] = NoFile]
    /\ UNCHANGED <<dataPathOk, now>>
    /\ UNCHANGED appVars

\* An archive of old logs is copied into the data directory.
RestoreArchive ==
    /\ envSteps < MaxEnvSteps
    /\ ~(\A p \in FillerPaths : fs[p].present)
    /\ envSteps' = envSteps + 1
    /\ fs' = [p \in AllPaths |-> IF p \in FillerPaths THEN FillerFile ELSE fs[p]]
    /\ UNCHANGED <<dataPathOk, now>>
    /\ UNCHANGED appVars

\* The data directory disappears or comes back.
ToggleDataPath ==
    /\ envSteps < MaxEnvSteps
    /\ envSteps' = envSteps + 1
    /\ dataPathOk' = ~dataPathOk
    /\ UNCHANGED <<fs, now>>
    /\ UNCHANGED appVars

\* A minute passes.
Tick ==
    /\ envSteps < MaxEnvSteps
    /\ envSteps' = envSteps + 1
    /\ now' = now + 1
    /\ UNCHANGED <<fs, dataPathOk>>
    /\ UNCHANGED appVars

---------------------------------------------------------------------------
(* DataManager: processUsageData and the session-window tracker *)

\* A session block of the bucketizer.
Block(startTime, endTime, isActive) ==
    [startTime |-> startTime, endTime |-> endTime, isActive |-> isActive]

RECURSIVE BlocksFrom(_, _, _, _)
BlocksFrom(entries, t, i, blocks) ==
    IF i > Len(entries) THEN blocks
    ELSE BlocksFrom(entries, t, i + 1,
           IF blocks # <<>> /\ entries[i].ts < blocks[Len(blocks)].endTime
           THEN blocks
           ELSE Append(blocks,
                       Block(entries[i].ts,
                             entries[i].ts + SessionHours * MinutesPerHour,
                             t < entries[i].ts + SessionHours * MinutesPerHour)))

\* analyzer.TransformToBlocks(result.Entries): the entries, in order, cut into
\* sessions of SessionHours; a block is active while it has not ended.
TransformToBlocks(entries, t) == BlocksFrom(entries, t, 1, <<>>)

\* block.IsActive || now.Sub(block.EndTime) < 5*time.Hour
IsActiveBlock(block, t) ==
    block.isActive \/ t - block.endTime < RecentHours * MinutesPerHour

\* A window that ends with the block, without the buffer for late writes.
InWindowWithoutBuffer(modTime, block) ==
    modTime > block.startTime /\ modTime < block.endTime

\* info.ModTime().After(block.StartTime) &&
\* info.ModTime().Before(block.EndTime.Add(30*time.Minute))
InWindow(modTime, block) ==
    modTime > block.startTime /\ modTime < block.endTime + BufferMinutes

\* The tracker of a file found inside an active block's window.
MarkInWindow(tr, modTime) ==
    IF tr.tracked
    THEN [tr EXCEPT !.inSessionWindow = TRUE, !.lastModTime = modTime]
    ELSE [tracked |-> TRUE, lastModTime |-> modTime, lastCacheUpdate |-> ZeroTime,
          inSessionWindow |-> TRUE]

\* A recomputation that marks the files found and leaves the other flags.
UpdateSessionWindowFilesKeepingFlags(blocks, t, fsys, pathOk, trk) ==
    [p \in AllPaths |->
        IF pathOk /\ fsys[p].present
           /\ \E i \in 1..Len(blocks) :
                IsActiveBlock(blocks[i], t) /\ InWindow(fsys[p].modTime, blocks[i])
        THEN MarkInWindow(trk[p], fsys[p].modTime)
        ELSE trk[p]]

\* updateSessionWindowFiles(blocks): every flag is reset, then the files found
\* under the data path are marked (nothing is marked when discovery fails).
UpdateSessionWindowFiles(blocks, t, fsys, pathOk, trk) ==
    [p \in AllPaths |->
        IF pathOk /\ fsys[p].present
           /\ \E i \in 1..Len(blocks) :
                IsActiveBlock(blocks[i], t) /\ InWindow(fsys[p].modTime, blocks[i])
        THEN MarkInWindow(trk[p], fsys[p].modTime)
        ELSE [trk[p] EXCEPT !.inSessionWindow = FALSE]]

AnalysisResult(blocks, entriesProcessed, generatedAt) ==
    [valid |-> TRUE, blocks |-> blocks, entriesProcessed |-> entriesProcessed,
     generatedAt |-> generatedAt]

\* The blocks are made and the tracker is recomputed from them.
Analyzed(blocks, n, t, fsys, pathOk, trk) ==
    [err |-> "", data |-> AnalysisResult(blocks, n, t),
     tracker |-> UpdateSessionWindowFiles(blocks, t, fsys, pathOk, trk)]

\* A processUsageData that analyses an empty entry list like any other.
ProcessUsageDataAcceptingEmpty(result, t, fsys, pathOk, trk) ==
    Analyzed(TransformToBlocks(result.entries, t), Len(result.entries),
             t, fsys, pathOk, trk)

\* processUsageData(result, mode): the no-data error, or the analysis result and
\* the tracker as updateSessionWindowFiles left it.
ProcessUsageData(result, t, fsys, pathOk, trk) ==
    IF Len(result.entries) = 0
    THEN [err |-> "no usage entries found", data |-> NilResult, tracker |-> trk]
    ELSE Analyzed(TransformToBlocks(result.entries, t), Len(result.entries),
                  t, fsys, pathOk, trk)

\* checkForFileChanges: some .jsonl file was modified within the last minute.
CheckForFileChanges(fsys, t) ==
    \E p \in DOMAIN fsys : fsys[p].present /\ fsys[p].modTime > t - 1

\* The options of the data manager's loads (IncludeRaw: true).
DMOpts ==
    WithStore(Opts(config.cacheStore, config.dedup, TRUE,
                   CutoffTime(DMHoursBack, now)),
              config.storeFault)

\* GetCacheAge(): seconds since the publish, -1 without one.
GetCacheAge ==
    IF cacheTimestamp = ZeroTime THEN -1 ELSE (now - cacheTimestamp) * 60

\* GetLastError()
GetLastError == lastError

---------------------------------------------------------------------------
(* The loader driven alone: the environment and a caller of LoadUsageEntries *)

LoaderInit ==
    /\ EnvInit
    /\ DMInit
    /\ config \in Configs

\* The worker orders that can be told apart: below the threshold there is no pool.
OrdersFor(fsys) ==
    IF Len(FindJSONLFiles(fsys)) > ConcurrentThreshold THEN WorkerOrders
    ELSE {"discovery"}

\* The caller keeps what the call returned; the store is as the call left it.
LoadDone(r) ==
    /\ last' = r.result
    /\ store' = r.store

\* One call of LoadUsageEntries.
Load(hoursBack, order) ==
    /\ LoadDone(LoadUsageEntries(fs, dataPathOk, store,
                                 WithStore(Opts(config.cacheStore, config.dedup,
                                                config.includeRaw,
                                                CutoffTime(hoursBack, now)),
                                           config.storeFault),
                                 order))
    /\ UNCHANGED <<runVars, cancelled, updVars, envVars, config, dmVars, callVars>>

\* The load built and wrote a summary of file p from the entries of its parse.
SummaryBuilt(r, p) ==
    /\ r.result.ok
    /\ r.result.perFile[p].processed
    /\ ~r.result.perFile[p].fromCache
    /\ r.result.perFile[p].err = ""
    /\ Len(r.result.perFile[p].entries) > 0
    /\ r.store[p].valid

\* The summary as createSummaryFromEntries stamps it when the os.Stat that
\* follows the parse sees file f.
Stamped(summary, f) ==
    [summary EXCEPT !.modTime = f.modTime, !.size = FileSize(f)]

\* One call of LoadUsageEntries during which the log writer appends line l to
\* file p after the load has read p and before it takes the stat for p's
\* new summary.
LoadDuringAppend(hoursBack, order, p, l) ==
    /\ envSteps < MaxEnvSteps
    /\ fs[p].present
    /\ SummaryBuilt(LoadUsageEntries(fs, dataPathOk, store,
                                     WithStore(Opts(config.cacheStore, config.dedup,
                                                    config.includeRaw,
                                                    CutoffTime(hoursBack, now)),
                                               config.storeFault),
                                     order), p)
    /\ envSteps' = envSteps + 1
    /\ fs' = [fs EXCEPT ![p] = File(Append(@.lines, l), now, @.readable)]
    /\ last' = LoadUsageEntries(fs, dataPathOk, store,
                                WithStore(Opts(config.cacheStore, config.dedup,
                                               config.includeRaw,
                                               CutoffTime(hoursBack, now)),
                                          config.storeFault),
                                order).result
    /\ store' = [LoadUsageEntries(fs, dataPathOk, store,
                                  WithStore(Opts(config.cacheStore, config.dedup,
                                                 config.includeRaw,
                                                 CutoffTime(hoursBack, now)),
                                            config.storeFault),
                                  order).store
                   EXCEPT ![p] = Stamped(@, fs'[p])]
    /\ UNCHANGED <<dataPathOk, now>>
    /\ UNCHANGED <<runVars, cancelled, updVars, config, dmVars, callVars>>

LoaderNext ==
    \/ \E p \in Paths, l \in LineAlphabet : AppendLine(p, l)
    \/ \E hoursBack \in HoursBackChoices, order \in OrdersFor(fs),
          p \in Paths, l \in LineAlphabet :
         LoadDuringAppend(hoursBack, order, p, l)
    \/ \E p \in Paths : Chmod(p)
    \/ RestoreArchive
    \/ ToggleDataPath
    \/ Tick
    \/ \E hoursBack \in HoursBackChoices, order \in OrdersFor(fs) :
         Load(hoursBack, order)

LoadSpec == LoaderInit /\ [][LoaderNext]_vars

---------------------------------------------------------------------------
(* DataManager.GetData, step by step: every critical section (dm.mu held) is *)
(* one action, and so is every load made without the lock.                  *)

\* The return statements of GetData and performInitialLoad.
ReturnSites ==
    { "returnedCached", "returnedFallback", "returnedFresh",
      "returnedInitialCached", "returnedInitial", "returnedInitialError" }

\* The call returns (result, error) at the given return statement.
Return(c, site, result, error) ==
    /\ pc' = [pc EXCEPT ![c] = site]
    /\ ret' = [ret EXCEPT ![c] = result]
    /\ retErr' = [retErr EXCEPT ![c] = error]

\* Where a call goes after reading initialLoadCompleted.
AfterFirstRead ==
    IF initialLoadCompleted THEN "steady"
    ELSE IF config.cacheStore THEN "initCache" ELSE "initFull"

CountInitialLoad(n) == IF n < MaxCounted THEN n + 1 ELSE n

\* GetData(forceRefresh): isInitialLoad := !dm.initialLoadCompleted, under RLock.
GetDataBegin(c, forceRefresh) ==
    /\ pc[c] = "idle"
    /\ pc' = [pc EXCEPT ![c] = AfterFirstRead]
    /\ force' = [force EXCEPT ![c] = forceRefresh]
    /\ initialLoads' = IF initialLoadCompleted THEN initialLoads
                       ELSE CountInitialLoad(initialLoads)
    /\ UNCHANGED <<runVars, cancelled, updVars, envVars, store, last, config, dmVars,
                   attempt, data, loadErr, slept, ret, retErr>>

\* A cached return that also clears the recorded error.
ReturnCachedClearingError(c) ==
    /\ pc[c] = "steady"
    /\ ~force[c]
    /\ Return(c, "returnedCached", cache, "")
    /\ lastError' = ""
    /\ UNCHANGED <<runVars, cancelled, updVars, envVars, store, last, config, cache, cacheTimestamp,
                   lastSuccessfulFetch, initialLoadCompleted, tracker,
                   force, attempt, data, loadErr, slept, initialLoads>>

\* if !forceRefresh { return dm.cache, nil }, under RLock.
ReturnCached(c) ==
    /\ pc[c] = "steady"
    /\ ~force[c]
    /\ Return(c, "returnedCached", cache, "")
    /\ UNCHANGED <<runVars, cancelled, updVars, envVars, store, last, config, dmVars,
                   force, attempt, data, loadErr, slept, initialLoads>>

\* forceRefresh: the retry loop starts with attempt 0.
StartRefresh(c) ==
    /\ pc[c] = "steady"
    /\ force[c]
    /\ pc' = [pc EXCEPT ![c] = "attempt"]
    /\ attempt' = [attempt EXCEPT ![c] = 0]
    /\ UNCHANGED <<runVars, cancelled, updVars, envVars, store, last, config, dmVars,
                   force, data, loadErr, slept, ret, retErr, initialLoads>>

\* The outcome of a load attempt: the data to publish, or the error.
AttemptOutcome(c, st, processed, okPc, failPc) ==
    /\ store' = st
    /\ tracker' = processed.tracker
    /\ data' = [data EXCEPT ![c] = processed.data]
    /\ loadErr' = [loadErr EXCEPT ![c] = processed.err]
    /\ pc' = [pc EXCEPT ![c] = IF processed.err = "" THEN okPc ELSE failPc]

LoadFailure(trk) ==
    [err |-> "failed to load usage entries", data |-> NilResult, tracker |-> trk]

\* analyzeUsageWatchMode(): LoadUsageEntries, then processUsageData.
AnalyzeUsage(c, r, okPc, failPc) ==
    IF r.result.ok
    THEN AttemptOutcome(c, r.store,
                        ProcessUsageData(r.result, now, fs, dataPathOk, tracker),
                        okPc, failPc)
    ELSE AttemptOutcome(c, r.store, LoadFailure(tracker), okPc, failPc)

\* data, err := dm.analyzeUsageWatchMode(), without the lock.
WatchAttempt(c) ==
    /\ pc[c] = "attempt"
    /\ \E order \in OrdersFor(fs) :
         AnalyzeUsage(c, LoadUsageEntries(fs, dataPathOk, store, DMOpts, order),
                      "publish", "failed")
    /\ UNCHANGED <<runVars, cancelled, updVars, envVars, last, config, cache, cacheTimestamp, lastError,
                   lastSuccessfulFetch, initialLoadCompleted,
                   force, attempt, slept, ret, retErr, initialLoads>>

\* A backoff that grows linearly instead of doubling.
BackoffLinear(n) == BackoffBaseMs * (n + 2)

\* backoff := time.Duration(100*(1<<attempt)) * time.Millisecond
Backoff(n) == BackoffBaseMs * 2 ^ n

\* if err != nil: dm.lastError = err under Lock; then the backoff sleep begins,
\* or the retries are exhausted.
AttemptFailed(c) ==
    /\ pc[c] = "failed"
    /\ lastError' = loadErr[c]
    /\ IF attempt[c] < MaxRetries - 1
       THEN /\ pc' = [pc EXCEPT ![c] = "backoff"]
            /\ slept' = [slept EXCEPT ![c] = Append(@, Backoff(attempt[c]))]
       ELSE /\ pc' = [pc EXCEPT ![c] = "fallback"]
            /\ UNCHANGED slept
    /\ UNCHANGED <<runVars, cancelled, updVars, envVars, store, last, config, cache, cacheTimestamp,
                   lastSuccessfulFetch, initialLoadCompleted, tracker,
                   force, attempt, data, loadErr, ret, retErr, initialLoads>>

\* time.Sleep(backoff) returns; continue with the next attempt.
BackoffDone(c) ==
    /\ pc[c] = "backoff"
    /\ pc' = [pc EXCEPT ![c] = "attempt"]
    /\ attempt' = [attempt EXCEPT ![c] = @ + 1]
    /\ UNCHANGED <<runVars, cancelled, updVars, envVars, store, last, config, dmVars,
                   force, data, loadErr, slept, ret, retErr, initialLoads>>

\* A fallback that reports the error although a result is published.
FallbackAlwaysError(c) ==
    /\ pc[c] = "fallback"
    /\ Return(c, "returnedFallback", NilResult, "failed to get usage data")
    /\ UNCHANGED <<runVars, cancelled, updVars, envVars, store, last, config, dmVars,
                   force, attempt, data, loadErr, slept, initialLoads>>

\* All retries failed: the cached data if there is any, else the error (RLock).
Fallback(c) ==
    /\ pc[c] = "fallback"
    /\ IF cache.valid THEN Return(c, "returnedFallback", cache, "")
       ELSE Return(c, "returnedFallback", NilResult, "failed to get usage data")
    /\ UNCHANGED <<runVars, cancelled, updVars, envVars, store, last, config, dmVars,
                   force, attempt, data, loadErr, slept, initialLoads>>

\* A publish that stores the result and forgets its timestamp.
PublishFieldsWithoutTimestamp(result) ==
    /\ cache' = result
    /\ cacheTimestamp' = cacheTimestamp
    /\ lastSuccessfulFetch' = now
    /\ lastError' = ""

\* The assignments made under dm.mu.Lock() after a successful load.
PublishFields(result) ==
    /\ cache' = result
    /\ cacheTimestamp' = now
    /\ lastSuccessfulFetch' = now
    /\ lastError' = ""

\* Success - update cache, under Lock; return data, nil.
Publish(c) ==
    /\ pc[c] = "publish"
    /\ PublishFields(data[c])
    /\ Return(c, "returnedFresh", data[c], "")
    /\ UNCHANGED <<runVars, cancelled, updVars, envVars, store, last, config, initialLoadCompleted, tracker,
                   force, attempt, data, loadErr, slept, initialLoads>>

\* InvalidateCache(), under Lock.
InvalidateFields ==
    /\ cache' = NilResult
    /\ cacheTimestamp' = ZeroTime

\* An invalidation that also asks for a new initial load.
InvalidateCacheAndReload(c) ==
    /\ pc[c] = "idle"
    /\ InvalidateFields
    /\ initialLoadCompleted' = FALSE
    /\ UNCHANGED <<runVars, cancelled, updVars, envVars, store, last, config, lastError, lastSuccessfulFetch,
                   tracker, callVars>>

InvalidateCache(c) ==
    /\ pc[c] = "idle"
    /\ InvalidateFields
    /\ UNCHANGED <<runVars, cancelled, updVars, envVars, store, last, config, lastError, lastSuccessfulFetch,
                   initialLoadCompleted, tracker, callVars>>

\* The caller has its return values; its next call starts with fresh locals.
CallDone(c) ==
    /\ pc[c] \in ReturnSites
    /\ pc' = [pc EXCEPT ![c] = "idle"]
    /\ force' = [force EXCEPT ![c] = FALSE]
    /\ attempt' = [attempt EXCEPT ![c] = 0]
    /\ data' = [data EXCEPT ![c] = NilResult]
    /\ loadErr' = [loadErr EXCEPT ![c] = ""]
    /\ slept' = [slept EXCEPT ![c] = <<>>]
    /\ ret' = [ret EXCEPT ![c] = NilResult]
    /\ retErr' = [retErr EXCEPT ![c] = ""]
    /\ UNCHANGED <<runVars, cancelled, updVars, envVars, store, last, config, dmVars, initialLoads>>

---------------------------------------------------------------------------
(* DataManager.performInitialLoad *)

\* The cache-assisted load gave entries and no file changed: its result is
\* accepted; otherwise the full load follows.
CacheAssisted(c, r) ==
    IF r.result.ok /\ Len(r.result.entries) > 0 /\ ~CheckForFileChanges(fs, now)
    THEN AttemptOutcome(c, r.store,
                        ProcessUsageData(r.result, now, fs, dataPathOk, tracker),
                        "initPublishCached", "initFailed")
    ELSE /\ store' = r.store
         /\ pc' = [pc EXCEPT ![c] = "initFull"]
         /\ UNCHANGED <<tracker, data, loadErr>>

\* if dm.cacheStore != nil: LoadUsageEntries(optsCache), checkForFileChanges,
\* processUsageData(resultCache, "initial-cached").
InitialCacheLoad(c) ==
    /\ pc[c] = "initCache"
    /\ \E order \in OrdersFor(fs) :
         CacheAssisted(c, LoadUsageEntries(fs, dataPathOk, store, DMOpts, order))
    /\ UNCHANGED <<runVars, cancelled, updVars, envVars, last, config, cache, cacheTimestamp, lastError,
                   lastSuccessfulFetch, initialLoadCompleted,
                   force, attempt, slept, ret, retErr, initialLoads>>

\* LoadUsageEntries(opts), processUsageData(result, "initial").
InitialFullLoad(c) ==
    /\ pc[c] = "initFull"
    /\ \E order \in OrdersFor(fs) :
         AnalyzeUsage(c, LoadUsageEntries(fs, dataPathOk, store, DMOpts, order),
                      "initPublish", "initFailed")
    /\ UNCHANGED <<runVars, cancelled, updVars, envVars, last, config, cache, cacheTimestamp, lastError,
                   lastSuccessfulFetch, initialLoadCompleted,
                   force, attempt, slept, ret, retErr, initialLoads>>

\* return nil, err
InitialFailed(c) ==
    /\ pc[c] = "initFailed"
    /\ Return(c, "returnedInitialError", NilResult, loadErr[c])
    /\ UNCHANGED <<runVars, cancelled, updVars, envVars, store, last, config, dmVars,
                   force, attempt, data, loadErr, slept, initialLoads>>

\* An initial publish that leaves the completion flag for later.
InitialPublishFieldsWithoutFlag(result) ==
    /\ initialLoadCompleted' = initialLoadCompleted
    /\ PublishFields(result)

\* Mark initial load as completed and update cache, under Lock.
InitialPublishFields(result) ==
    /\ initialLoadCompleted' = TRUE
    /\ PublishFields(result)

\* The cache-assisted result is published; return dataCache, nil.
InitialPublishCached(c) ==
    /\ pc[c] = "initPublishCached"
    /\ InitialPublishFields(data[c])
    /\ Return(c, "returnedInitialCached", data[c], "")
    /\ UNCHANGED <<runVars, cancelled, updVars, envVars, store, last, config, tracker,
                   force, attempt, data, loadErr, slept, initialLoads>>

\* The full load's result is published; return data, nil.
InitialPublish(c) ==
    /\ pc[c] = "initPublish"
    /\ InitialPublishFields(data[c])
    /\ Return(c, "returnedInitial", data[c], "")
    /\ UNCHANGED <<runVars, cancelled, updVars, envVars, store, last, config, tracker,
                   force, attempt, data, loadErr, slept, initialLoads>>

---------------------------------------------------------------------------
(* The data manager with its callers and the environment *)

\* ea.cancel(): the application's context is cancelled (a signal, or the UI
\* returned).
Cancel ==
    /\ ~cancelled
    /\ cancelled' = TRUE
    /\ UNCHANGED <<runVars, updVars, envVars, store, last, config, dmVars, callVars>>

\* The lines the log writer appends in this specification.
DMLines == { UsageLine(2, "m1", "r1"), UsageLine(1, "", "") }

Init ==
    /\ EnvInit
    /\ DMInit
    /\ config \in {cfg \in Configs : cfg.includeRaw /\ cfg.storeFault = "none"}

Next ==
    \/ \E p \in Paths, l \in DMLines : AppendLine(p, l)
    \/ ToggleDataPath
    \/ Tick
    \/ Cancel
    \/ \E c \in Callers, f \in BOOLEAN : GetDataBegin(c, f)
    \/ \E c \in Callers : ReturnCached(c)
    \/ \E c \in Callers : StartRefresh(c)
    \/ \E c \in Callers : WatchAttempt(c)
    \/ \E c \in Callers : AttemptFailed(c)
    \/ \E c \in Callers : BackoffDone(c)
    \/ \E c \in Callers : Fallback(c)
    \/ \E c \in Callers : Publish(c)
    \/ \E c \in Callers : InvalidateCache(c)
    \/ \E c \in Callers : CallDone(c)
    \/ \E c \in Callers : InitialCacheLoad(c)
    \/ \E c \in Callers : InitialFullLoad(c)
    \/ \E c \in Callers : InitialFailed(c)
    \/ \E c \in Callers : InitialPublishCached(c)
    \/ \E c \in Callers : InitialPublish(c)

Spec == Init /\ [][Next]_vars

---------------------------------------------------------------------------
(* The background cache updater: Start, Stop, the ticker and the goroutine.  *)
(* Start and Stop are called by one thread (they take no lock); the goroutine *)
(* runs beside it.                                                           *)

\* The period of the ticker, and the age after which a file is refreshed.
UpdatePeriod == 1

\* How many tickers Start has made.
Started == Cardinality({g \in Generations : tickers[g].made})

\* What the updater and the ticker leave alone.
updFrame == <<runVars, cancelled, envVars, store, last, config, dmVars, callVars>>

\* startCacheUpdater(ctx): nothing when a ticker is set; otherwise a ticker and
\* a stop channel are made and the goroutine is started (it has seen both).
StartCacheUpdater ==
    /\ owner = "idle"
    /\ cacheUpdateTicker = NilRef
    /\ Started < MaxStarts
    /\ cacheUpdateTicker' = Started + 1
    /\ cacheUpdateStop' = Started + 1
    /\ tickers' = [tickers EXCEPT ![Started + 1] =
                     [made |-> TRUE, stopped |-> FALSE, tick |-> FALSE]]
    /\ updater' = [updater EXCEPT ![Started + 1] =
                     [pc |-> "loop", stopCh |-> Started + 1, tickCh |-> Started + 1]]
    /\ UNCHANGED <<closedStops, owner>>
    /\ UNCHANGED updFrame

\* stopCacheUpdater, first half: the ticker is stopped and the field set to nil.
StopTicker ==
    /\ owner = "idle"
    /\ owner' = "stopping"
    /\ IF cacheUpdateTicker # NilRef
       THEN /\ tickers' = [tickers EXCEPT ![cacheUpdateTicker].stopped = TRUE]
            /\ cacheUpdateTicker' = NilRef
       ELSE UNCHANGED <<tickers, cacheUpdateTicker>>
    /\ UNCHANGED <<cacheUpdateStop, closedStops, updater>>
    /\ UNCHANGED updFrame

\* stopCacheUpdater, second half: the stop channel is closed and the field set
\* to nil.
StopChannel ==
    /\ owner = "stopping"
    /\ owner' = "idle"
    /\ IF cacheUpdateStop # NilRef
       THEN /\ closedStops' = closedStops \cup {cacheUpdateStop}
            /\ cacheUpdateStop' = NilRef
       ELSE UNCHANGED <<closedStops, cacheUpdateStop>>
    /\ UNCHANGED <<cacheUpdateTicker, tickers, updater>>
    /\ UNCHANGED updFrame

\* The runtime sends a tick on a running ticker's channel (one is buffered).
TickerFires(t) ==
    /\ tickers[t].made
    /\ ~tickers[t].stopped
    /\ ~tickers[t].tick
    /\ tickers' = [tickers EXCEPT ![t].tick = TRUE]
    /\ UNCHANGED <<cacheUpdateTicker, cacheUpdateStop, closedStops, updater, owner>>
    /\ UNCHANGED updFrame

\* The goroutine enters the select and evaluates its channel operands:
\* dm.cacheUpdateStop and dm.cacheUpdateTicker.C.  The two fields are read
\* without synchronisation with Stop's writes, so each read gives the field's
\* current value or the one this goroutine saw before; reading C through a nil
\* ticker is a nil-pointer panic.
SelectOn(g, stopRead, tickRead) ==
    updater' = [updater EXCEPT ![g] =
                  IF tickRead = NilRef
                  THEN [pc |-> "panicked", stopCh |-> stopRead, tickCh |-> tickRead]
                  ELSE [pc |-> "select", stopCh |-> stopRead, tickCh |-> tickRead]]

UpdaterSelect(g) ==
    /\ updater[g].pc = "loop"
    /\ \E stopRead \in {cacheUpdateStop, updater[g].stopCh},
          tickRead \in {cacheUpdateTicker, updater[g].tickCh} :
         SelectOn(g, stopRead, tickRead)
    /\ UNCHANGED <<cacheUpdateTicker, cacheUpdateStop, tickers, closedStops, owner>>
    /\ UNCHANGED updFrame

\* case <-ctx.Done(): return
UpdaterCancelled(g) ==
    /\ updater[g].pc = "select"
    /\ cancelled
    /\ updater' = [updater EXCEPT ![g].pc = "stoppedCtx"]
    /\ UNCHANGED <<cacheUpdateTicker, cacheUpdateStop, tickers, closedStops, owner>>
    /\ UNCHANGED updFrame

\* case <-dm.cacheUpdateStop: return (a nil channel is never ready)
UpdaterStopped(g) ==
    /\ updater[g].pc = "select"
    /\ updater[g].stopCh \in closedStops
    /\ updater' = [updater EXCEPT ![g].pc = "stopped"]
    /\ UNCHANGED <<cacheUpdateTicker, cacheUpdateStop, tickers, closedStops, owner>>
    /\ UNCHANGED updFrame

\* case <-dm.cacheUpdateTicker.C: the tick is received.
UpdaterTicked(g) ==
    /\ updater[g].pc = "select"
    /\ tickers[updater[g].tickCh].tick
    /\ tickers' = [tickers EXCEPT ![updater[g].tickCh].tick = FALSE]
    /\ updater' = [updater EXCEPT ![g].pc = "refresh"]
    /\ UNCHANGED <<cacheUpdateTicker, cacheUpdateStop, closedStops, owner>>
    /\ UNCHANGED updFrame

\* The options of updateFileCache: no HoursBack, no raw records.
UpdaterOpts ==
    WithStore(Opts(config.cacheStore, config.dedup, FALSE, NoCutoff),
              config.storeFault)

\* tracker.InSessionWindow && time.Since(tracker.LastCacheUpdate) > 1*time.Minute
NeedsCacheUpdate(tr, t) ==
    tr.tracked /\ tr.inSessionWindow /\ t - tr.lastCacheUpdate > UpdatePeriod

\* The directory as a load of the single path p sees it.
OnlyFile(fsys, p) == [q \in AllPaths |-> IF q = p THEN fsys[q] ELSE NoFile]

\* updateFileCache(filePath): the file alone is loaded through the store.
UpdateFileCache(p, fsys, st, opts) ==
    LoadUsageEntries(OnlyFile(fsys, p), TRUE, st, opts, "discovery")

\* A refresh that also forgets the tracker of a file that is gone.
UpdateSessionWindowCachesDroppingGone(trk, fsys, st, t, opts) ==
    [store |-> [p \in AllPaths |->
                  IF NeedsCacheUpdate(trk[p], t) /\ fsys[p].present
                  THEN UpdateFileCache(p, fsys, st, opts).store[p]
                  ELSE st[p]],
     tracker |-> [p \in AllPaths |->
                  IF NeedsCacheUpdate(trk[p], t) /\ ~fsys[p].present
                  THEN NoTracker
                  ELSE IF /\ NeedsCacheUpdate(trk[p], t)
                          /\ UpdateFileCache(p, fsys, st, opts).result.ok
                  THEN [trk[p] EXCEPT !.lastCacheUpdate = t,
                                      !.lastModTime = fsys[p].modTime]
                  ELSE trk[p]]]

\* updateSessionWindowCaches(): every tracked in-window file whose refresh is
\* older than the period is loaded alone (a file that is gone is skipped); its
\* summary is rewritten and its tracker stamped.
UpdateSessionWindowCaches(trk, fsys, st, t, opts) ==
    [store |-> [p \in AllPaths |->
                  IF NeedsCacheUpdate(trk[p], t) /\ fsys[p].present
                  THEN UpdateFileCache(p, fsys, st, opts).store[p]
                  ELSE st[p]],
     tracker |-> [p \in AllPaths |->
                  IF /\ NeedsCacheUpdate(trk[p], t)
                     /\ fsys[p].present
                     /\ UpdateFileCache(p, fsys, st, opts).result.ok
                  THEN [trk[p] EXCEPT !.lastCacheUpdate = t,
                                      !.lastModTime = fsys[p].modTime]
                  ELSE trk[p]]]

RefreshDone(r) ==
    /\ store' = r.store
    /\ tracker' = r.tracker

\* The refresh of one tick runs through; the goroutine goes round the loop.
UpdaterRefresh(g) ==
    /\ updater[g].pc = "refresh"
    /\ updater' = [updater EXCEPT ![g].pc = "loop"]
    /\ RefreshDone(UpdateSessionWindowCaches(tracker, fs, store, now, UpdaterOpts))
    /\ UNCHANGED <<cacheUpdateTicker, cacheUpdateStop, tickers, closedStops, owner>>
    /\ UNCHANGED <<runVars, cancelled, envVars, last, config, cache, cacheTimestamp, lastError,
                   lastSuccessfulFetch, initialLoadCompleted, callVars>>

\* The directory of a run of the updater: two logs, written just now.
UpdaterDir ==
    [p \in AllPaths |->
       IF p \in Paths THEN File(<<UsageLine(2, "m1", "r1")>>, StartTime, TRUE)
       ELSE NoFile]

\* The updater is started on a data manager whose first GetData has loaded
\* that directory and published the result.
FirstLoad(cfg) ==
    LoadUsageEntries(UpdaterDir, TRUE, [p \in AllPaths |-> NoSummary],
                     WithStore(Opts(cfg.cacheStore, cfg.dedup, TRUE,
                                    CutoffTime(DMHoursBack, StartTime)),
                               cfg.storeFault),
                     "discovery")

FirstProcessed(cfg) ==
    ProcessUsageData(FirstLoad(cfg).result, StartTime, UpdaterDir, TRUE,
                     [p \in AllPaths |-> NoTracker])

UpdaterInit ==
    /\ RunIdle
    /\ config \in {cfg \in Configs : cfg.includeRaw /\ cfg.storeFault = "none"}
    /\ fs = UpdaterDir
    /\ dataPathOk = TRUE
    /\ envSteps = 0
    /\ now = StartTime
    /\ last = NoLoad
    /\ store = FirstLoad(config).store
    /\ cache = FirstProcessed(config).data
    /\ cacheTimestamp = StartTime
    /\ lastError = ""
    /\ lastSuccessfulFetch = StartTime
    /\ initialLoadCompleted = TRUE
    /\ tracker = FirstProcessed(config).tracker
    /\ UpdaterIdle
    /\ pc = [c \in Callers |-> "idle"]
    /\ force = [c \in Callers |-> FALSE]
    /\ attempt = [c \in Callers |-> 0]
    /\ data = [c \in Callers |-> NilResult]
    /\ loadErr = [c \in Callers |-> ""]
    /\ slept = [c \in Callers |-> <<>>]
    /\ ret = [c \in Callers |-> NilResult]
    /\ retErr = [c \in Callers |-> ""]
    /\ initialLoads = 1

\* The lines the log writer appends while the updater runs.
UpdaterLines == { UsageLine(2, "m1", "r1"), OtherLine("toolong") }

UpdaterNext ==
    \/ \E l \in UpdaterLines : AppendLine(1, l)
    \/ \E p \in Paths : Chmod(p)
    \/ \E p \in Paths : RemoveFile(p)
    \/ Tick
    \/ Cancel
    \/ StartCacheUpdater
    \/ StopTicker
    \/ StopChannel
    \/ \E t \in Generations : TickerFires(t)
    \/ \E g \in Generations : UpdaterSelect(g)
    \/ \E g \in Generations : UpdaterCancelled(g)
    \/ \E g \in Generations : UpdaterStopped(g)
    \/ \E g \in Generations : UpdaterTicked(g)
    \/ \E g \in Generations : UpdaterRefresh(g)

UpdaterSpec == UpdaterInit /\ [][UpdaterNext]_vars

---------------------------------------------------------------------------
(* updateSessionWindowFiles driven alone: the blocks, the files' modification *)
(* times and the clock are drawn from the values around the window's edges.   *)

\* Two sessions: the second starts where the first one's buffer ends.
BlockA(isActive) ==
    Block(StartTime, StartTime + SessionHours * MinutesPerHour, isActive)
BlockB(isActive) ==
    Block(BlockA(isActive).endTime + BufferMinutes,
          BlockA(isActive).endTime + BufferMinutes + SessionHours * MinutesPerHour,
          isActive)

\* The block lists handed to updateSessionWindowFiles.
BlockLists ==
    {<<>>}
    \cup { <<BlockA(a)>> : a \in BOOLEAN }
    \cup { <<BlockB(b)>> : b \in BOOLEAN }
    \cup { <<BlockA(a), BlockB(b)>> : a, b \in BOOLEAN }

\* Modification times at and next to the edges of the first block's window.
WindowTimes ==
    { StartTime - 1, StartTime, StartTime + 1,
      BlockA(TRUE).endTime + BufferMinutes - 1,
      BlockA(TRUE).endTime + BufferMinutes,
      BlockA(TRUE).endTime + BufferMinutes + 1 }

\* The clock: just before and at five hours after the first block's end, and
\* five hours after the second one's.
WindowClocks ==
    { BlockA(TRUE).endTime + RecentHours * MinutesPerHour - 1,
      BlockA(TRUE).endTime + RecentHours * MinutesPerHour,
      BlockB(TRUE).endTime + RecentHours * MinutesPerHour }

\* A file's modification time becomes t (it is written, or created, then).
Touch(p, t) ==
    /\ envSteps < MaxEnvSteps
    /\ envSteps' = envSteps + 1
    /\ fs' = [fs EXCEPT ![p] = File(IF @.present THEN @.lines
                                    ELSE <<UsageLine(2, "m1", "r1")>>,
                                    t, TRUE)]
    /\ UNCHANGED <<dataPathOk, now>>
    /\ UNCHANGED appVars

\* processUsageData has built the blocks of caller c's analysis (data[c]) and
\* calls updateSessionWindowFiles(blocks).
UpdateWindow(c) ==
    /\ pc[c] = "attempt"
    /\ data[c].valid
    /\ tracker' = UpdateSessionWindowFiles(data[c].blocks, now, fs, dataPathOk,
                                           tracker)
    /\ pc' = [pc EXCEPT ![c] = "publish"]
    /\ UNCHANGED <<runVars, cancelled, updVars, envVars, store, last, config, cache,
                   cacheTimestamp, lastError, lastSuccessfulFetch,
                   initialLoadCompleted, force, attempt, data, loadErr, slept,
                   ret, retErr, initialLoads>>

\* The next analysis of caller c has other blocks.
NextBlocks(c, blocks) ==
    /\ pc[c] = "publish"
    /\ data' = [data EXCEPT ![c] = AnalysisResult(blocks, Len(blocks), now)]
    /\ pc' = [pc EXCEPT ![c] = "attempt"]
    /\ UNCHANGED <<runVars, cancelled, updVars, envVars, store, last, config, dmVars,
                   force, attempt, loadErr, slept, ret, retErr, initialLoads>>

WindowInit ==
    /\ RunIdle
    /\ fs = [p \in AllPaths |-> NoFile]
    /\ dataPathOk = TRUE
    /\ store = [p \in AllPaths |-> NoSummary]
    /\ envSteps = 0
    /\ now \in WindowClocks
    /\ last = NoLoad
    /\ config \in {cfg \in Configs : cfg.includeRaw /\ cfg.storeFault = "none"
                                      /\ cfg.cacheStore /\ cfg.dedup}
    /\ cache = NilResult
    /\ cacheTimestamp = ZeroTime
    /\ lastError = ""
    /\ lastSuccessfulFetch = ZeroTime
    /\ initialLoadCompleted = TRUE
    /\ tracker = [p \in AllPaths |-> NoTracker]
    /\ UpdaterIdle
    /\ pc = [c \in Callers |-> IF c = "c1" THEN "attempt" ELSE "idle"]
    /\ force = [c \in Callers |-> c = "c1"]
    /\ attempt = [c \in Callers |-> 0]
    /\ \E blocks \in BlockLists :
         data = [c \in Callers |->
                   IF c = "c1" THEN AnalysisResult(blocks, Len(blocks), now)
                   ELSE NilResult]
    /\ loadErr = [c \in Callers |-> ""]
    /\ slept = [c \in Callers |-> <<>>]
    /\ ret = [c \in Callers |-> NilResult]
    /\ retErr = [c \in Callers |-> ""]
    /\ initialLoads = 1

WindowNext ==
    \/ \E p \in Paths, t \in WindowTimes : Touch(p, t)
    \/ \E p \in Paths : RemoveFile(p)
    \/ ToggleDataPath
    \/ \E c \in Callers : UpdateWindow(c)
    \/ \E c \in Callers, blocks \in BlockLists : NextBlocks(c, blocks)

WindowSpec == WindowInit /\ [][WindowNext]_vars

---------------------------------------------------------------------------
(* The data manager's claims, checked under Spec *)

\* C1: the published result and its timestamp are consistent: cache is nil
\* exactly when cacheTimestamp is zero, GetCacheAge is -1 exactly when nothing
\* is published, and every step that writes one of the two writes the pair:
\* a publish stores a result with the time of that publish, an invalidation
\* stores nil with the zero time.
PublishedPairConsistent ==
    [][ /\ (cache = NilResult) <=> (cacheTimestamp = ZeroTime)
        /\ (cache' = NilResult) <=> (cacheTimestamp' = ZeroTime)
        /\ (GetCacheAge = -1) <=> (cache = NilResult)
        /\ (GetCacheAge' = -1) <=> (cache' = NilResult)
        /\ (cache' # cache \/ cacheTimestamp' # cacheTimestamp) =>
             \/ cache'.valid /\ cacheTimestamp' = now
             \/ cache' = NilResult /\ cacheTimestamp' = ZeroTime ]_vars

\* A refresh published after the clock had moved: the reader sees the new
\* result paired with the time of that publish, and a cache age of 0.
PublishedPairWitness ==
    /\ cache.valid
    /\ cacheTimestamp = now
    /\ now > StartTime
    /\ GetCacheAge = 0
    /\ \E c \in Callers : pc[c] = "returnedFresh" /\ ret[c] = cache

\* C2: a forced refresh in Steady makes at most 3 attempts, waits 100ms after
\* the first failure and 200ms after the second and not after the third, stops
\* at the first success, and then returns that attempt's result with a nil
\* error, publishes it and leaves GetLastError nil.
ForcedRefreshRetries ==
    [][ \A c \in Callers :
          /\ attempt'[c] < 3
          /\ Len(slept'[c]) <= 2
          /\ \A i \in 1..Len(slept'[c]) : slept'[c][i] = <<100, 200>>[i]
          /\ pc'[c] \in {"attempt", "failed", "publish"} => Len(slept'[c]) = attempt'[c]
          /\ pc'[c] = "backoff" => Len(slept'[c]) = attempt'[c] + 1
          /\ pc'[c] = "fallback" => attempt'[c] = 2 /\ slept'[c] = <<100, 200>>
          /\ (pc[c] = "attempt" /\ pc'[c] # pc[c]) =>
               IF data'[c].valid THEN pc'[c] = "publish" ELSE pc'[c] = "failed"
          /\ (pc[c] = "publish" /\ pc'[c] # pc[c]) =>
               /\ pc'[c] = "returnedFresh"
               /\ ret'[c] = data[c] /\ ret'[c].valid /\ retErr'[c] = ""
               /\ cache' = data[c]
               /\ GetLastError' = ""
               /\ attempt'[c] = attempt[c] /\ slept'[c] = slept[c] ]_vars

\* Two attempts failed, the third succeeded: its result is returned and
\* published after waits of 100ms and 200ms, and no error is recorded.
ForcedRefreshWitness ==
    \E c \in Callers :
        /\ pc[c] = "returnedFresh"
        /\ attempt[c] = 2
        /\ slept[c] = <<100, 200>>
        /\ ret[c].valid /\ retErr[c] = ""
        /\ cache = ret[c]
        /\ GetLastError = ""

\* C3: when all three attempts of a forced refresh fail, GetData returns the
\* published result with a nil error if there is one, and nil with an error
\* only if there is none; no step of the failing call changes the published
\* result, its timestamp or lastSuccessfulFetch.
FailedRefreshFallsBack ==
    [][ \A c \in Callers :
          /\ (pc[c] = "fallback" /\ pc'[c] # pc[c]) =>
               /\ pc'[c] = "returnedFallback"
               /\ attempt[c] = 2
               /\ cache.valid => ret'[c] = cache /\ retErr'[c] = ""
               /\ ~cache.valid => ret'[c] = NilResult /\ retErr'[c] # ""
          /\ (pc[c] \in {"steady", "attempt", "failed", "backoff", "fallback"}
                /\ pc'[c] # pc[c]) =>
               UNCHANGED <<cache, cacheTimestamp, lastSuccessfulFetch>> ]_vars

\* Three attempts failed while a result was published: the call returned it.
FailedRefreshWitness ==
    \E c \in Callers :
        /\ pc[c] = "returnedFallback"
        /\ attempt[c] = 2
        /\ ret[c].valid /\ ret[c] = cache /\ retErr[c] = ""
        /\ lastError # ""
        /\ lastSuccessfulFetch = cacheTimestamp

\* C4: in Steady, GetData(false) returns exactly the published result and
\* changes nothing: the published pair, lastError, lastSuccessfulFetch, the
\* file tracker and the summary store stay as they are, and no load starts.
SteadyReadChangesNothing ==
    [][ \A c \in Callers :
          (pc[c] = "steady" /\ ~force[c] /\ pc'[c] # pc[c]) =>
             /\ pc'[c] = "returnedCached"
             /\ ret'[c] = cache /\ retErr'[c] = ""
             /\ UNCHANGED <<cache, cacheTimestamp, lastError, lastSuccessfulFetch,
                            initialLoadCompleted, tracker, store>> ]_vars

\* A Steady read returned the published result while an error of a failed
\* refresh was recorded.
SteadyReadWitness ==
    \E c \in Callers :
        /\ pc[c] = "returnedCached"
        /\ ret[c].valid /\ ret[c] = cache
        /\ lastError # ""

\* C5: once initialLoadCompleted is true it stays true, and a GetData call
\* that starts afterwards never takes the initial-load path, also after
\* InvalidateCache or failed refreshes.
InitialLoadNeverAgain ==
    [][ /\ initialLoadCompleted => initialLoadCompleted'
        /\ \A c \in Callers :
             (initialLoadCompleted /\ pc[c] = "idle" /\ pc'[c] # pc[c]) =>
                pc'[c] = "steady" ]_vars

\* After the initial load the cache was invalidated and a refresh failed; the
\* next call is in Steady all the same.
InitialLoadNeverAgainWitness ==
    /\ initialLoadCompleted
    /\ cache = NilResult
    /\ lastError # ""
    /\ \E c \in Callers : pc[c] = "steady"

\* C6: the initial load, by the cache-assisted path or by the full load, sets
\* initialLoadCompleted and publishes the new result with its timestamp in one
\* step; the flag never becomes true in any other step.
InitialLoadPublishesAtomically ==
    [][ /\ \A c \in Callers :
             (pc[c] \in {"initPublishCached", "initPublish"} /\ pc'[c] # pc[c]) =>
                /\ initialLoadCompleted'
                /\ cache' = data[c] /\ cache'.valid
                /\ cacheTimestamp' = now
                /\ ret'[c] = cache' /\ retErr'[c] = ""
        /\ (~initialLoadCompleted /\ initialLoadCompleted') =>
             /\ cache'.valid /\ cacheTimestamp' = now
             /\ \E c \in Callers :
                  /\ pc[c] \in {"initPublishCached", "initPublish"}
                  /\ pc'[c] \in {"returnedInitialCached", "returnedInitial"} ]_vars

\* One caller published by the cache-assisted path, the other by the full load.
InitialLoadPublishWitness ==
    /\ initialLoadCompleted
    /\ cache.valid
    /\ \E c \in Callers : pc[c] = "returnedInitialCached" /\ ret[c].valid
    /\ \E c \in Callers : pc[c] = "returnedInitial" /\ ret[c].valid

\* C7: the initial-load path is executed by at most one GetData call, also
\* when calls are made concurrently before the first load has published.
OnlyOneInitialLoad == initialLoads <= 1

---------------------------------------------------------------------------
(* The loader's claims, checked under LoadSpec *)

\* A step of LoadSpec that is a call of LoadUsageEntries: the environment rests.
IsLoadStep == envSteps' = envSteps

\* The line gives an entry of the load that takes part in deduplication.
KeyedLine(l, cutoff) ==
    l.kind = "usage" /\ l.mid # "" /\ l.rid # "" /\ ~BeforeCutoff(l.ts, cutoff)

\* The keys with both parts non-empty that the writer's lines carry.
DedupKeys ==
    { DedupKey(l) : l \in { x \in LineAlphabet : KeyedLine(x, NoCutoff) } }

\* The files that load r processed without an error and that hold an entry
\* with key k.
FilesWithKey(fsys, r, k) ==
    { p \in AllPaths :
        /\ fsys[p].present /\ r.perFile[p].processed /\ r.perFile[p].err = ""
        /\ \E i \in 1..Len(fsys[p].lines) :
             /\ KeyedLine(fsys[p].lines[i], r.opts.cutoff)
             /\ DedupKey(fsys[p].lines[i]) = k }

\* The positions of the result's entries with key k.
Survivors(r, k) ==
    { i \in 1..Len(r.entries) :
        r.entries[i].mid # "" /\ r.entries[i].rid # "" /\ DedupKey(r.entries[i]) = k }

\* C8: with deduplication enabled, a (messageID, requestID) pair with both
\* parts non-empty that occurs in entries of two different files of one load
\* has exactly one entry in the result, and (files being merged in discovery
\* order) it comes from the first of these files.
CrossFileDuplicateKeepsFirst ==
    [][ (IsLoadStep /\ last'.ok /\ last'.opts.dedup) =>
          \A k \in DedupKeys :
             Cardinality(FilesWithKey(fs, last', k)) >= 2 =>
                /\ Cardinality(Survivors(last', k)) = 1
                /\ ~last'.concurrent =>
                     \A i \in Survivors(last', k) :
                        \A p \in FilesWithKey(fs, last', k) :
                           last'.entries[i].project <= p ]_vars

\* C9: the entry list returned by every successful LoadUsageEntries call is
\* sorted non-decreasing by timestamp.
EntriesSortedByTimestamp ==
    last.ok =>
       \A i \in 1..Len(last.entries) : \A j \in i..Len(last.entries) :
          last.entries[i].ts <= last.entries[j].ts

\* A load through the worker pool, with cache hits and misses, returned
\* entries of different timestamps.
EntriesSortedWitness ==
    /\ last.ok
    /\ last.concurrent
    /\ last.hits > 0 /\ last.misses > 0
    /\ \E i \in 1..Len(last.entries) : \E j \in i..Len(last.entries) :
          last.entries[i].ts < last.entries[j].ts

\* C10: with a summary store configured, a file whose (modTime, size) are the
\* same in two successive loads with the same options (and which the first
\* load read without an error) is a cache hit in the second load, is not
\* opened or parsed by it, and gives the same entries as in the first load.
UnchangedFileIsCacheHit ==
    [][ (IsLoadStep /\ last.ok /\ last'.ok /\ last'.opts = last.opts
           /\ last'.opts.cacheStore) =>
          \A p \in AllPaths :
             ( /\ last.perFile[p].processed /\ last'.perFile[p].processed
               /\ last.perFile[p].err = ""
               /\ last'.perFile[p].modTime = last.perFile[p].modTime
               /\ last'.perFile[p].size = last.perFile[p].size ) =>
                /\ last'.perFile[p].fromCache
                /\ ~last'.perFile[p].opened
                /\ last'.perFile[p].entries = last.perFile[p].entries ]_vars

\* The file holds no usage-bearing line.
NoUsageLines(f) == \A i \in 1..Len(f.lines) : f.lines[i].kind # "usage"

\* The summary is the one of a file without assistant messages, taken when the
\* file had this (modTime, size).
EmptySummaryOf(summary, f) ==
    /\ summary.valid
    /\ summary.hasNoAssistantMessages
    /\ ~IsExpired(summary, f.modTime, FileSize(f))

\* C11: with a (sound) summary store configured, a file with zero usage-bearing
\* lines gives an empty entry set and no error, and after the load the store
\* holds its summary marked as having no assistant messages; a load that finds
\* that summary for the unchanged file has a cache hit with zero entries and
\* does not open the file.
EmptyFileIsCachedEmpty ==
    [][ (IsLoadStep /\ last'.ok /\ config.cacheStore /\ config.storeFault = "none") =>
          \A p \in AllPaths :
             (fs[p].present /\ NoUsageLines(fs[p])) =>
                /\ last'.perFile[p].processed
                /\ last'.perFile[p].entries = <<>>
                /\ last'.perFile[p].err = ""
                /\ EmptySummaryOf(store'[p], fs[p])
                /\ EmptySummaryOf(store[p], fs[p]) =>
                     /\ last'.perFile[p].fromCache
                     /\ ~last'.perFile[p].opened
                     /\ store'[p] = store[p] ]_vars

\* A file of lines without usage data was loaded a second time: a cache hit
\* with zero entries, the file not opened.
EmptyFileWitness ==
    /\ last.ok
    /\ \E p \in Paths :
         /\ fs[p].present /\ Len(fs[p].lines) > 0 /\ NoUsageLines(fs[p])
         /\ EmptySummaryOf(store[p], fs[p])
         /\ last.perFile[p].fromCache
         /\ ~last.perFile[p].opened
         /\ last.perFile[p].entries = <<>>

\* C12: a load uses a stored summary as a cache hit only when the summary's
\* stored (modTime, size) both equal the ones the load observed for the file;
\* with any mismatch the file is processed again.
StaleSummaryNeverTrusted ==
    [][ (IsLoadStep /\ last'.ok) =>
          \A p \in AllPaths :
             /\ last'.perFile[p].fromCache =>
                  /\ store[p].valid
                  /\ store[p].modTime = last'.perFile[p].modTime
                  /\ store[p].size = last'.perFile[p].size
                  /\ fs[p].modTime = last'.perFile[p].modTime
                  /\ Len(fs[p].lines) = last'.perFile[p].size
             /\ ( /\ last'.perFile[p].processed /\ store[p].valid
                  /\ (store[p].modTime # fs[p].modTime
                        \/ store[p].size # Len(fs[p].lines)) ) =>
                  /\ ~last'.perFile[p].fromCache
                  /\ last'.perFile[p].opened ]_vars

\* A load found a summary with another stamp than the file's, could not
\* invalidate it, and processed the file again.
StaleSummaryWitness ==
    /\ last.ok
    /\ \E p \in Paths :
         /\ last.perFile[p].missReason = "modified_file"
         /\ ~last.perFile[p].fromCache
         /\ last.perFile[p].opened
         /\ Len(last.perFile[p].entries) > 0

\* C13: a forced refresh in watch mode never writes to the summary store: no
\* load attempt of GetData(true) changes the set of stored summaries.
WatchModeLeavesStore ==
    [][ \A c \in Callers :
          (pc[c] = "attempt" /\ pc'[c] # pc[c]) => store' = store ]_vars

\* The files whose processing returned an error in load r.
FailedFiles(r) ==
    { p \in AllPaths : r.perFile[p].processed /\ r.perFile[p].err # "" }

\* Load r holds the entry of line l of file p, or (with deduplication, for a
\* line with a full key) a copy of it from a file that did not fail.
EntryKept(r, p, l) ==
    \E j \in 1..Len(r.entries) :
        /\ r.entries[j].mid = l.mid /\ r.entries[j].rid = l.rid
        /\ IF r.opts.dedup /\ KeyedLine(l, r.opts.cutoff)
           THEN r.entries[j].project \notin FailedFiles(r)
           ELSE r.entries[j].ts = l.ts /\ r.entries[j].project = p

\* C14: an error on one file never aborts a load: when file discovery succeeds
\* the load succeeds, each failing file adds one item to the processing errors
\* and contributes no entries, and the entries of every other file (here: of
\* every other file the load parsed) are in the result.
FileErrorsDoNotAbortLoad ==
    [][ IsLoadStep =>
          /\ dataPathOk => last'.ok
          /\ last'.ok =>
               /\ Len(last'.errors) = Cardinality(FailedFiles(last'))
               /\ \A p \in FailedFiles(last') :
                    \A j \in 1..Len(last'.entries) : last'.entries[j].project # p
               /\ \A p \in AllPaths \ FailedFiles(last') :
                    ( /\ last'.perFile[p].processed
                      /\ ~last'.perFile[p].fromCache /\ fs[p].readable ) =>
                       \A i \in 1..Len(fs[p].lines) :
                          ( /\ fs[p].lines[i].kind = "usage"
                            /\ ~BeforeCutoff(fs[p].lines[i].ts, last'.opts.cutoff) ) =>
                             EntryKept(last', p, fs[p].lines[i]) ]_vars

\* The load the data manager would make in this state succeeds with zero entries.
LoadYieldsNothing ==
    LET r == LoadUsageEntries(fs, dataPathOk, store, DMOpts, "discovery").result
    IN r.ok /\ Len(r.entries) = 0

\* C15: a load that yields zero entries is a failed attempt: processUsageData
\* returns the no-data error, nothing is published, the published pair and the
\* file tracker stay as they are, and in watch mode the attempt is a failure of
\* the retry loop (the error is recorded and the loop backs off or gives up).
EmptyLoadIsFailure ==
    [][ \A c \in Callers :
          /\ (pc[c] \in {"attempt", "initFull"} /\ pc'[c] # pc[c]
                /\ LoadYieldsNothing) =>
               /\ loadErr'[c] = "no usage entries found"
               /\ ~data'[c].valid
               /\ pc'[c] = (IF pc[c] = "attempt" THEN "failed" ELSE "initFailed")
               /\ UNCHANGED <<cache, cacheTimestamp, lastSuccessfulFetch,
                              initialLoadCompleted, tracker>>
          /\ (pc[c] = "failed" /\ pc'[c] # pc[c]) =>
               /\ lastError' = loadErr[c]
               /\ pc'[c] \in {"backoff", "fallback"}
               /\ UNCHANGED <<cache, cacheTimestamp, lastSuccessfulFetch, tracker>> ]_vars

\* With a result published, a refresh attempt loaded zero entries from a
\* readable directory and is counted as failed.
EmptyLoadWitness ==
    \E c \in Callers :
        /\ pc[c] = "failed"
        /\ loadErr[c] = "no usage entries found"
        /\ dataPathOk
        /\ cache.valid
        /\ LoadYieldsNothing


\* C16 (clean termination): in every interleaving of Start, Stop, ticks and
\* cancellation, also when Stop arrives while a refresh is in flight, the
\* background updater never crashes.
UpdaterNeverPanics ==
    \A g \in Generations : updater[g].pc # "panicked"


\* What the same call returns with a sound store: one whose lookups all miss
\* where the failing call is the lookup, the same summaries otherwise.
SoundLoad(opts, order) ==
    LoadUsageEntries(fs, dataPathOk,
                     IF opts.storeFault = "get"
                     THEN [p \in AllPaths |-> NoSummary] ELSE store,
                     WithStore(opts, "none"), order).result

\* The files a load processed without an error.
FilesLoaded(r) ==
    {p \in AllPaths : r.perFile[p].processed /\ r.perFile[p].err = ""}

HasStaleSummary(p) ==
    /\ fs[p].present
    /\ store[p].valid
    /\ IsExpired(store[p], fs[p].modTime, FileSize(fs[p]))

\* C18: a file with usage lines whose stored summary has another (modTime,
\* size) is fully re-processed and reported with the miss reason modified_file
\* (counted in ModifiedFiles, not in NewFiles), whether or not the invalidation
\* call succeeds.
ModifiedFileReported ==
    [][ (IsLoadStep /\ dataPathOk /\ config.cacheStore
           /\ config.storeFault # "get") =>
          \A p \in AllPaths :
            (/\ HasStaleSummary(p)
             /\ HasAssistantMessages(fs[p])
             /\ last'.perFile[p].err = "") =>
               /\ last'.perFile[p].opened
               /\ ~last'.perFile[p].fromCache
               /\ last'.perFile[p].missReason = "modified_file"
               /\ last'.reasons["modified_file"] > 0 ]_vars


\* The two branches of LoadUsageEntries run on the directory and the store of
\* the current state (the worker pool returning in discovery order).
LoadOptions(hoursBack) ==
    WithStore(Opts(config.cacheStore, config.dedup, config.includeRaw,
                   CutoffTime(hoursBack, now)),
              config.storeFault)

SequentialPath(files, opts) ==
    LoadReturn(SequentialLoad(files, fs, opts, LoadStart(store)),
               Len(files), FALSE, opts)

ConcurrentPath(files, opts) ==
    LoadReturn(ConcurrentLoad(files, fs, opts, LoadStart(store)),
               Len(files), TRUE, opts)

Occurrences(seq, e) == Cardinality({i \in 1..Len(seq) : seq[i] = e})

SameMultiset(s, t) ==
    /\ Len(s) = Len(t)
    /\ \A i \in 1..Len(s) : Occurrences(s, s[i]) = Occurrences(t, s[i])

SameLoad(a, b) ==
    /\ SameMultiset(a.result.entries, b.result.entries)
    /\ a.result.errors = b.result.errors
    /\ a.result.hits = b.result.hits
    /\ a.result.misses = b.result.misses
    /\ a.result.reasons = b.result.reasons
    /\ a.store = b.store

\* C19: on the same files, options and store, the sequential branch and the
\* concurrent branch followed by the merge give the same multiset of entries,
\* the same per-file errors, the same hit and miss counts and miss reasons,
\* and the same summaries to persist.
SequentialAndConcurrentAgree ==
    dataPathOk =>
      \A hoursBack \in HoursBackChoices :
        SameLoad(SequentialPath(FindJSONLFiles(fs), LoadOptions(hoursBack)),
                 ConcurrentPath(FindJSONLFiles(fs), LoadOptions(hoursBack)))


\* C20: between two attempts of a forced refresh the retry loop checks for
\* cancellation: a caller waiting out the backoff of a failed attempt starts
\* no further load attempt once the context is cancelled.
NoAttemptAfterCancel ==
    [][ \A c \in Callers :
          (cancelled /\ pc[c] = "backoff" /\ pc'[c] # pc[c]) =>
             pc'[c] # "attempt" ]_vars


---------------------------------------------------------------------------
(* The session window's claims, checked under WindowSpec *)

\* The step is a call of updateSessionWindowFiles by caller c.
IsWindowStep(c) == pc[c] = "attempt" /\ pc'[c] = "publish"

\* The blocks of caller c's analysis that count as active: the flag is set, or
\* the block ended less than five hours ago.
ActiveBlocksOf(c) ==
    { b \in {data[c].blocks[i] : i \in 1..Len(data[c].blocks)} :
        b.isActive \/ now - b.endTime < 300 }

\* C21: after a recomputation, a discovered file modified inside an active
\* block's range extended by 30 minutes is marked in-window, and one modified
\* 31 minutes after the end of an active block and inside no other active
\* block's range is not.
WindowCoversBuffer ==
    [][ \A c \in Callers : \A p \in AllPaths :
          (IsWindowStep(c) /\ dataPathOk /\ fs[p].present) =>
            /\ (\E b \in ActiveBlocksOf(c) :
                  /\ b.startTime < fs[p].modTime
                  /\ fs[p].modTime < b.endTime + 30) =>
                 tracker'[p].inSessionWindow
            /\ (/\ \E b \in ActiveBlocksOf(c) : fs[p].modTime = b.endTime + 31
                /\ \A b \in ActiveBlocksOf(c) :
                     fs[p].modTime < b.startTime \/ fs[p].modTime > b.endTime + 30) =>
                 ~tracker'[p].inSessionWindow ]_vars

\* A file inside the buffer is marked while another one, 31 minutes after the
\* block's end, is not.
WindowCoversBufferWitness ==
    /\ pc["c1"] = "publish"
    /\ dataPathOk
    /\ data["c1"].blocks = <<BlockA(FALSE)>>
    /\ now - BlockA(FALSE).endTime < 300
    /\ fs[1].present /\ fs[1].modTime = BlockA(FALSE).endTime + 29
    /\ tracker[1].inSessionWindow
    /\ fs[2].present /\ fs[2].modTime = BlockA(FALSE).endTime + 31
    /\ ~tracker[2].inSessionWindow


\* C22: the in-window range is the closed interval [blockStart, blockEnd +
\* 30min]: a discovered file modified exactly at an active block's start, or
\* exactly 30 minutes after its end, is marked in-window.
WindowIsClosedInterval ==
    [][ \A c \in Callers : \A p \in AllPaths :
          (/\ IsWindowStep(c) /\ dataPathOk /\ fs[p].present
           /\ \E b \in ActiveBlocksOf(c) :
                \/ fs[p].modTime = b.startTime
                \/ fs[p].modTime = b.endTime + 30) =>
             tracker'[p].inSessionWindow ]_vars


\* The file p is discovered, can be stat'ed, and was modified strictly inside
\* (strictly outside) the range of some (every) active block of caller c.
QualifiesForWindow(c, p) ==
    /\ dataPathOk
    /\ fs[p].present
    /\ \E b \in ActiveBlocksOf(c) :
         b.startTime < fs[p].modTime /\ fs[p].modTime < b.endTime + 30

DisqualifiedForWindow(c, p) ==
    \/ ~dataPathOk
    \/ ~fs[p].present
    \/ \A b \in ActiveBlocksOf(c) :
         fs[p].modTime < b.startTime \/ fs[p].modTime > b.endTime + 30

\* C23: the in-window flags are recomputed in full by updateSessionWindowFiles:
\* afterwards a tracker's flag is set exactly when its file was discovered in
\* this cycle, could be stat'ed and was modified inside the window of an
\* active block; a flag of an earlier cycle does not survive for a file that
\* no longer qualifies, and no tracker leaves the map.
TrackerFullyRecomputed ==
    [][ \A c \in Callers : \A p \in AllPaths :
          IsWindowStep(c) =>
            /\ tracker[p].tracked => tracker'[p].tracked
            /\ QualifiesForWindow(c, p) => tracker'[p].inSessionWindow
            /\ DisqualifiedForWindow(c, p) => ~tracker'[p].inSessionWindow ]_vars

\* A file marked in an earlier cycle has been deleted: after the recomputation
\* its tracker is still there, with the flag cleared.
TrackerRecomputedWitness ==
    /\ pc["c1"] = "publish"
    /\ ~fs[1].present
    /\ tracker[1].tracked
    /\ ~tracker[1].inSessionWindow
    /\ data["c1"].blocks # <<>>


---------------------------------------------------------------------------
(* The background refresher's claims, checked under UpdaterSpec *)

\* The step is one run of updateSessionWindowCaches.
IsRefreshStep ==
    \E g \in Generations : updater[g].pc = "refresh" /\ updater'[g].pc = "loop"

\* The tracker of p is in-window and its last refresh is more than a minute old.
SelectedForRefresh(p) ==
    /\ tracker[p].tracked
    /\ tracker[p].inSessionWindow
    /\ now - tracker[p].lastCacheUpdate > 1

\* The refresh of p fails: the file is gone, or processing it gives an error.
RefreshFails(p) ==
    \/ ~fs[p].present
    \/ Len(UpdateFileCache(p, fs, store, UpdaterOpts).result.errors) > 0

\* C24: a run of the refresher processes exactly the tracked files that are
\* in-window with a last refresh more than one minute old, each alone; a
\* successful refresh stamps the tracker with the refresh time, a failed one
\* leaves the tracker as it was, and neither keeps the other files from being
\* refreshed.
RefreshSelectsAndStamps ==
    [][ (IsRefreshStep /\ config.cacheStore) =>
          \A p \in AllPaths :
            /\ ~SelectedForRefresh(p) =>
                 tracker'[p] = tracker[p] /\ store'[p] = store[p]
            /\ (SelectedForRefresh(p) /\ ~RefreshFails(p)) =>
                 /\ tracker'[p].lastCacheUpdate = now
                 /\ ~SelectedForRefresh(p)'
                 /\ store'[p] = UpdateFileCache(p, fs, store, UpdaterOpts).store[p]
            /\ (SelectedForRefresh(p) /\ RefreshFails(p)) =>
                 tracker'[p] = tracker[p] ]_vars


---------------------------------------------------------------------------
(* The per-file processor's claims, checked under LoadSpec *)

\* The usage lines of f that pass the cutoff, by their position in the file.
UsageIndexes(f, cutoff) ==
    { i \in 1..Len(f.lines) :
        f.lines[i].kind = "usage" /\ ~BeforeCutoff(f.lines[i].ts, cutoff) }

\* The file cannot be opened, or holds a line the scanner stops at.
HasIOError(f) ==
    ~f.readable \/ \E i \in 1..Len(f.lines) : f.lines[i].kind = "toolong"

\* C25: processing one file, a line that is not valid JSON, a blank line or a
\* JSON object without usage data is skipped and never makes the file fail:
\* every usage line before and after it yields its entry, in order.  Only a
\* failure to open the file or a scanner error makes the file fail, and then
\* it returns an error with zero entries and zero raw records.
CorruptLinesAreSkipped ==
    [][ (IsLoadStep /\ dataPathOk /\ ~config.cacheStore /\ ~config.dedup) =>
          \A p \in Paths :
            fs[p].present =>
              IF HasIOError(fs[p])
              THEN /\ last'.perFile[p].err # ""
                   /\ last'.perFile[p].entries = <<>>
                   /\ ProcessSingleFileWithDedup(p, fs[p], last'.opts.cutoff,
                                                 TRUE, FALSE, {}).raw = <<>>
              ELSE /\ last'.perFile[p].err = ""
                   /\ Len(last'.perFile[p].entries)
                        = Cardinality(UsageIndexes(fs[p], last'.opts.cutoff))
                   /\ \A i \in UsageIndexes(fs[p], last'.opts.cutoff) :
                        last'.perFile[p].entries[
                            Cardinality({j \in UsageIndexes(fs[p], last'.opts.cutoff) :
                                           j <= i})]
                          = EntryOf(fs[p].lines[i], p) ]_vars

\* A file with a line that is not valid JSON between two usage lines has been
\* loaded and gave both entries.
CorruptLinesWitness ==
    /\ ~config.cacheStore
    /\ ~config.dedup
    /\ last # NoLoad
    /\ last.ok
    /\ Len(fs[1].lines) = 3
    /\ fs[1].lines[1].kind = "usage"
    /\ fs[1].lines[2].kind = "badjson"
    /\ fs[1].lines[3].kind = "usage"
    /\ last.perFile[1].processed
    /\ last.perFile[1].size = 3
    /\ Len(last.perFile[1].entries) = 2


----------------------------------------------------------------------------
(* The scope of the deduplication set, checked under LoadSpec *)

\* The fields of a FileSummary.
SummaryFields == { "valid", "modTime", "size", "entries", "hasNoAssistantMessages" }

\* The files without an I/O error that load r parsed (no cache hit).
ParsedFiles(fsys, r) ==
    { p \in AllPaths :
        /\ fsys[p].present /\ ~HasIOError(fsys[p])
        /\ r.perFile[p].processed /\ ~r.perFile[p].fromCache }

\* No file of the directory fails with an I/O error.
NoIOError(fsys) == \A p \in AllPaths : fsys[p].present => ~HasIOError(fsys[p])

\* C26: the deduplication set is scoped to one load: a load with
\* deduplication starts with an empty set and reads no set an earlier load
\* filled (every usage line of a file it parses has its entry, or a copy with
\* the same key from this very load, in the result, when no file has an I/O
\* error), the
\* set is never written to the store (the store holds file summaries only),
\* and without deduplication no entry is dropped as a duplicate (each parsed
\* file gives one entry per usage line that passes the cutoff).
DedupSetScopedToLoad ==
    [][ (IsLoadStep /\ dataPathOk) =>
          /\ (last'.opts.dedup /\ NoIOError(fs)) =>
                \A p \in ParsedFiles(fs, last') :
                   \A i \in UsageIndexes(fs[p], last'.opts.cutoff) :
                      EntryKept(last', p, fs[p].lines[i])
          /\ ~last'.opts.dedup =>
                \A p \in ParsedFiles(fs, last') :
                   /\ Len(last'.perFile[p].entries)
                        = Cardinality(UsageIndexes(fs[p], last'.opts.cutoff))
                   /\ \A i \in UsageIndexes(fs[p], last'.opts.cutoff) :
                        EntryKept(last', p, fs[p].lines[i])
          /\ \A p \in AllPaths :
                store'[p].valid => DOMAIN store'[p] = SummaryFields ]_vars

\* With deduplication on, a file an earlier load had parsed and summarised was
\* modified and parsed again, and the entry with the key the earlier load had
\* seen is in the result.
DedupSetScopedWitness ==
    /\ config.dedup
    /\ last.ok
    /\ last.perFile[1].processed
    /\ last.perFile[1].missReason = "modified_file"
    /\ last.perFile[1].err = ""
    /\ Len(fs[1].lines) = 2
    /\ KeyedLine(fs[1].lines[1], last.opts.cutoff)
    /\ \E j \in 1..Len(last.entries) :
         /\ last.entries[j].project = 1
         /\ DedupKey(last.entries[j]) = DedupKey(fs[1].lines[1])


----------------------------------------------------------------------------
(* Summaries and files that are being written, checked under LoadSpec *)

\* The most recent load parsed file p, which has no I/O error, and built a
\* summary from its entries, and the store holds a summary of p whose stamp
\* equals p's current modTime and size.
FreshSummaryOf(p) ==
    /\ last.ok
    /\ last.perFile[p].processed
    /\ ~last.perFile[p].fromCache
    /\ Len(last.perFile[p].entries) > 0
    /\ fs[p].present
    /\ ~HasIOError(fs[p])
    /\ store[p].valid
    /\ ~IsExpired(store[p], fs[p].modTime, FileSize(fs[p]))

\* C27: a summary in the store whose (modTime, size) equal the file's current
\* ones holds the entries a full parse of the file's current content gives,
\* also when the writer appended to the file between the load's read of it
\* and the stat that stamps the summary.  (Stated for the summary the most
\* recent load wrote, against a parse under that load's cutoff, without
\* deduplication.)
SummaryMatchesCurrentFile ==
    \A p \in Paths :
       (~config.dedup /\ FreshSummaryOf(p)) =>
          store[p].entries
            = ProcessSingleFile(p, fs[p], last.opts.cutoff, FALSE).entries


\* C28: the summary a load builds for a file holds every usage entry of that
\* file that passes the cutoff, whatever files the load processed before it:
\* no cross-file deduplication decision is stored, so a later cache hit gives
\* the entries a parse of that file alone gives.
SummaryHoldsOwnEntries ==
    [][ (IsLoadStep /\ dataPathOk /\ last'.ok /\ last'.opts.dedup) =>
          \A p \in ParsedFiles(fs, last') :
             ( /\ Len(last'.perFile[p].entries) > 0
               /\ store'[p].valid
               /\ ~IsExpired(store'[p], fs[p].modTime, FileSize(fs[p])) ) =>
                store'[p].entries
                  = ProcessSingleFileWithDedup(p, fs[p], last'.opts.cutoff,
                                               FALSE, TRUE, {}).entries ]_vars


\* C29: when a file fails with an I/O error after some of its lines were
\* read, the load's deduplication set is as it was before that file: a key
\* first seen in the failed file does not make a later file's entry with that
\* key be dropped, so every keyed usage line of a file that was parsed without
\* error has an entry with its key in the result.
FailedFileLeavesNoKeys ==
    [][ (IsLoadStep /\ dataPathOk /\ last'.ok /\ last'.opts.dedup
           /\ FailedFiles(last') # {}) =>
          \A p \in AllPaths \ FailedFiles(last') :
             (fs[p].present /\ last'.perFile[p].processed
                /\ ~last'.perFile[p].fromCache) =>
                \A i \in UsageIndexes(fs[p], last'.opts.cutoff) :
                   KeyedLine(fs[p].lines[i], last'.opts.cutoff) =>
                      Survivors(last', DedupKey(fs[p].lines[i])) # {} ]_vars


----------------------------------------------------------------------------
(* Reads of the cache after an invalidation, checked under Spec *)

\* C30: once an initial load has succeeded, GetData(false) never returns a
\* nil result together with a nil error, whatever GetData calls,
\* InvalidateCache calls and failed forced refreshes came before or run
\* beside it.
CachedReadNeverNilNil ==
    \A c \in Callers :
       (initialLoadCompleted /\ ~force[c] /\ pc[c] = "returnedCached") =>
          (ret[c].valid \/ retErr[c] # "")


----------------------------------------------------------------------------
(* GetLastError after a GetData call, checked under Spec *)

\* Caller c's GetData returns in this step.
Returns(c) == pc[c] \notin ReturnSites /\ pc'[c] \in ReturnSites

\* C31: GetLastError agrees with the outcome of the last load: when a GetData
\* call returns a non-nil error, GetLastError called right after (it reads
\* dm.lastError as the return leaves it) gives a non-nil error, and when a
\* GetData call returns a freshly loaded result, it gives nil.
LastErrorAgreesWithReturn ==
    [][ \A c \in Callers :
          Returns(c) =>
             /\ retErr'[c] # "" => lastError' # ""
             /\ pc'[c] \in {"returnedFresh", "returnedInitial", "returnedInitialCached"}
                  => lastError' = "" ]_vars


----------------------------------------------------------------------------
(* Two forced refreshes side by side, checked under Spec *)

\* Result a comes from a load that read the files before the load of result
\* b did: it was generated earlier, or in the same minute from fewer entries
\* (the files only grow, and without deduplication every usage line that
\* passes the cutoff is one entry).
FromEarlierLoad(a, b) ==
    \/ a.generatedAt < b.generatedAt
    \/ a.generatedAt = b.generatedAt /\ a.entriesProcessed < b.entriesProcessed

\* C32: with two forced refreshes running concurrently, a result computed
\* from an earlier load of the files never replaces a published result that
\* was computed from a later load: the result a forced refresh publishes is
\* not from an earlier load than the one the other forced refresh has put in
\* the cache.
LaterLoadStaysPublished ==
    [][ \A c \in Callers :
          ( /\ ~config.dedup
            /\ force[c] /\ pc[c] = "publish" /\ pc'[c] = "returnedFresh"
            /\ cache.valid
            /\ \E d \in Callers \ {c} :
                  force[d] /\ pc[d] = "returnedFresh" /\ ret[d] = cache ) =>
             ~FromEarlierLoad(cache', cache) ]_vars


----------------------------------------------------------------------------
(* What a background refresh may change, checked under UpdaterSpec *)

\* C33: a background refresh changes only the summary store and the
\* LastCacheUpdate and LastModTime of the trackers it refreshed: it leaves the
\* published result, its timestamp, lastError, lastSuccessfulFetch and
\* initialLoadCompleted as they were, changes no tracker's InSessionWindow
\* flag, adds and removes no tracker, and leaves the tracker and the summary
\* of every file it did not select untouched.
RefreshChangesOnlyStamps ==
    [][ IsRefreshStep =>
          /\ cache' = cache
          /\ cacheTimestamp' = cacheTimestamp
          /\ lastError' = lastError
          /\ lastSuccessfulFetch' = lastSuccessfulFetch
          /\ initialLoadCompleted' = initialLoadCompleted
          /\ \A p \in AllPaths :
               /\ tracker'[p].tracked = tracker[p].tracked
               /\ tracker'[p].inSessionWindow = tracker[p].inSessionWindow
               /\ ~SelectedForRefresh(p) =>
                    tracker'[p] = tracker[p] /\ store'[p] = store[p] ]_vars

\* A refresh has run and stamped the tracker of the first log of a data
\* manager with a published result.
RefreshStampedWitness ==
    /\ cache.valid
    /\ initialLoadCompleted
    /\ tracker[1].tracked
    /\ tracker[1].lastCacheUpdate # ZeroTime
    /\ \E g \in Generations : updater[g].pc = "loop"


----------------------------------------------------------------------------
(* EnhancedApplication.Run: the guard, start and its retry, the signal      *)
(* handler, the UI loop, and the shutdown sequence.                         *)

\* What Run leaves alone.
runFrame == <<envVars, store, last, config, dmVars, callVars, updVars>>

\* ea.mu.Lock(); if ea.running { return error }; ea.running = true.
RunGuard(r) ==
    /\ runPc[r] = "idle"
    /\ IF running
       THEN /\ runPc' = [runPc EXCEPT ![r] = "returnedAlreadyRunning"]
            /\ UNCHANGED running
       ELSE /\ runPc' = [runPc EXCEPT ![r] = "start"]
            /\ running' = TRUE
    /\ UNCHANGED <<wg, sigCh, orchestrator, startAttempts, cancelled>>
    /\ UNCHANGED runFrame

\* ea.start(): the orchestrator starts, or its Start returns an error.
RunStart(r, ok) ==
    /\ runPc[r] = "start"
    /\ startAttempts' = startAttempts + 1
    /\ orchestrator' = IF ok THEN "started" ELSE orchestrator
    /\ runPc' = [runPc EXCEPT ![r] = IF ok THEN "spawn" ELSE "retry"]
    /\ UNCHANGED <<running, wg, sigCh, cancelled>>
    /\ UNCHANGED runFrame

\* return ea.errorHandler.RetryWithBackoff(ea.ctx, ea.start, ...): start is
\* tried again until it succeeds or the attempts are used up, and Run returns
\* what the retry returns.
RunRetry(r, ok) ==
    /\ runPc[r] = "retry"
    /\ IF cancelled \/ startAttempts >= MaxStartAttempts
       THEN /\ runPc' = [runPc EXCEPT ![r] = "returnedRetried"]
            /\ UNCHANGED <<orchestrator, startAttempts>>
       ELSE /\ startAttempts' = startAttempts + 1
            /\ orchestrator' = IF ok THEN "started" ELSE orchestrator
            /\ runPc' = [runPc EXCEPT ![r] = IF ok THEN "returnedRetried" ELSE "retry"]
    /\ UNCHANGED <<running, wg, sigCh, cancelled>>
    /\ UNCHANGED runFrame

\* ea.wg.Add(1); go ea.handleSignals(sigCh); then the UI loop is entered.
RunSpawn(r) ==
    /\ runPc[r] = "spawn"
    /\ wg' = wg + 1
    /\ runPc' = [runPc EXCEPT ![r] = "ui"]
    /\ UNCHANGED <<running, sigCh, orchestrator, startAttempts, cancelled>>
    /\ UNCHANGED runFrame

\* A signal arrives after signal.Notify; the channel buffers one.
Signal(sig) ==
    /\ running
    /\ sigCh = <<>>
    /\ sigCh' = <<sig>>
    /\ UNCHANGED <<running, runPc, wg, orchestrator, startAttempts, cancelled>>
    /\ UNCHANGED runFrame

\* handleSignals, one round of its select.  case sig := <-sigCh: a shutdown
\* signal cancels the context and ends the goroutine (wg.Done), SIGHUP reloads
\* and goes on.  case <-ea.ctx.Done(): the goroutine ends.
HandleSignals(case) ==
    /\ wg > 0
    /\ IF case = "sigCh"
       THEN /\ sigCh # <<>>
            /\ sigCh' = <<>>
            /\ IF Head(sigCh) = "INT"
               THEN cancelled' = TRUE /\ wg' = wg - 1
               ELSE UNCHANGED <<cancelled, wg>>
       ELSE /\ cancelled
            /\ wg' = wg - 1
            /\ UNCHANGED <<sigCh, cancelled>>
    /\ UNCHANGED <<running, runPc, orchestrator, startAttempts>>
    /\ UNCHANGED runFrame

\* runBackground / runInteractive return when the context is done.
RunUI(r) ==
    /\ runPc[r] = "ui"
    /\ cancelled
    /\ runPc' = [runPc EXCEPT ![r] = "cancel"]
    /\ UNCHANGED <<running, wg, sigCh, orchestrator, startAttempts, cancelled>>
    /\ UNCHANGED runFrame

\* ea.cancel()
RunCancel(r) ==
    /\ runPc[r] = "cancel"
    /\ cancelled' = TRUE
    /\ runPc' = [runPc EXCEPT ![r] = "wait"]
    /\ UNCHANGED <<running, wg, sigCh, orchestrator, startAttempts>>
    /\ UNCHANGED runFrame

\* ea.wg.Wait()
RunWait(r) ==
    /\ runPc[r] = "wait"
    /\ wg = 0
    /\ runPc' = [runPc EXCEPT ![r] = "shutdown"]
    /\ UNCHANGED <<running, wg, sigCh, orchestrator, startAttempts, cancelled>>
    /\ UNCHANGED runFrame

\* ea.shutdown(): the orchestrator is stopped; Run returns.
RunShutdown(r) ==
    /\ runPc[r] = "shutdown"
    /\ orchestrator' = "stopped"
    /\ runPc' = [runPc EXCEPT ![r] = "returned"]
    /\ UNCHANGED <<running, wg, sigCh, startAttempts, cancelled>>
    /\ UNCHANGED runFrame

RunInit ==
    /\ EnvInit
    /\ DMInit
    /\ config \in {cfg \in Configs : cfg.includeRaw /\ cfg.storeFault = "none"}

RunNext ==
    \/ \E r \in RunCallers : RunGuard(r)
    \/ \E r \in RunCallers, ok \in BOOLEAN : RunStart(r, ok)
    \/ \E r \in RunCallers, ok \in BOOLEAN : RunRetry(r, ok)
    \/ \E r \in RunCallers : RunSpawn(r)
    \/ \E sig \in Signals : Signal(sig)
    \/ \E case \in {"sigCh", "ctxDone"} : HandleSignals(case)
    \/ \E r \in RunCallers : RunUI(r)
    \/ \E r \in RunCallers : RunCancel(r)
    \/ \E r \in RunCallers : RunWait(r)
    \/ \E r \in RunCallers : RunShutdown(r)

RunSpec == RunInit /\ [][RunNext]_vars

----------------------------------------------------------------------------
(* Run and shutdown, checked under RunSpec *)

\* The callers of Run that passed the already-running guard.
PassedGuard == { r \in RunCallers : runPc[r] \notin {"idle", "returnedAlreadyRunning"} }

\* C34: of the Run calls on one application only one passes the
\* already-running guard, and when that call has returned, the context is
\* cancelled, no goroutine of the wait group is left and shutdown has stopped
\* the orchestrator, also when the first start() failed and was retried.
RunShutsDownBeforeReturn ==
    /\ Cardinality(PassedGuard) <= 1
    /\ \A r \in PassedGuard :
          runPc[r] \in {"returned", "returnedRetried"} =>
             cancelled /\ wg = 0 /\ orchestrator = "stopped"

====
